---- MODULE Spec2Model ----
(***************************************************************************)
(* State-machine model of the blog API (FastAPI application under app/).   *)
(*                                                                         *)
(* State: the users table, the Redis key space behind RedisCache, the wall *)
(* clock, the RedisCache client handle and the last request with its       *)
(* response; revocations records, per jti, the revoke_refresh_token calls *)
(* made so far (history only: 0 none, 1 one, 2 several).  One action       *)
(* per request handler; a handler is one atomic step (one task per         *)
(* request, every store operation atomic).  posts is the posts table with  *)
(* its id sequence, listing the last list_posts request with its response  *)
(* (reset by every other step), issued the access token last minted,       *)
(* comments the comments table, tasks the requests in flight where the     *)
(* steps of concurrent requests are interleaved (RaceSpec, RegisterSpec).  *)
(*                                                                         *)
(* Time is counted in minutes.  A JWT is a record of its claims plus a bit *)
(* telling whether its signature verifies under settings.SECRET_KEY.       *)
(* Clients may present any bearer string: an unverifiable one, or one that *)
(* create_access_token / create_refresh_token(expires_delta=...) signed.   *)
(*                                                                         *)
(* The slowapi rate limiter (app/utils/limiter.py) wraps register and      *)
(* login from outside the handlers and is not part of this model.          *)
(*                                                                         *)
(* Specifications: Spec runs the auth routes; PostsSpec the posts routes   *)
(* under list requests of every shape; FeedSpec one author filling the     *)
(* feed past a page; WriteSpec the write routes under credentials of every *)
(* kind; TokenSpec the access-token codec over a clock that passes the     *)
(* access window; SessionSpec logouts next to writes under access tokens;  *)
(* CommentsSpec the posts and comments routes together; RaceSpec a write   *)
(* request and a listing interleaved at their store operations;            *)
(* OutageSpec the list routes while the Redis server does not answer;      *)
(* TtlSpec the listings over a clock that passes the time to live of the   *)
(* entries; RegisterSpec two register requests interleaved at their        *)
(* database statements; ReadSpec the read routes that take a post id;      *)
(* KeySpec the listings next to logouts on the one key space; TwinSpec the *)
(* route's listing next to the service layer's.                            *)
(* The auth routes keep no state the posts routes read except the users    *)
(* table, and the other way round.                                         *)
(***************************************************************************)
EXTENDS Integers, Sequences, FiniteSets, TLC

VARIABLES users, redis, now, client, resp, revocations, posts, listing, issued,
          comments, tasks

vars == <<users, redis, now, client, resp, revocations, posts, listing, issued,
          comments, tasks>>

(***************************************************************************)
(* Bounds of the model                                                     *)
(***************************************************************************)
MaxEmails == 2
MaxJti == 1
MaxTime == 5
TickStep == 5
MaxClock == 40
MaxPosts == 1
MaxFeed == 11

EmailPool == <<"a@x.io", "b@x.io", "c@x.io", "d@x.io">>
Emails == {EmailPool[i] : i \in 1..MaxEmails}
Usernames == {"ann", "bob"}
\* primary keys the users table can hand out: one row per unique username
UserIds == 1..Cardinality(Usernames)
Jtis == 1..MaxJti
Times == {t \in 0..MaxTime : t % TickStep = 0}

(***************************************************************************)
(* Passwords are character sequences, so the policy check computes on them *)
(***************************************************************************)
Letters == {"a", "b", "c", "d", "e", "f", "g", "h"}
Digits == {"0", "1", "2", "3", "4", "5", "6", "7", "8", "9"}
PwValid == <<"a", "b", "c", "d", "e", "f", "g", "1">>
PwShort == <<"a", "b", "c", "1">>
PwNoDigit == <<"a", "b", "c", "d", "e", "f", "g", "h">>
PwNoLetter == <<"1", "2", "3", "4", "5", "6", "7", "8">>
Passwords == {PwValid, PwShort, PwNoDigit, PwNoLetter}

(***************************************************************************)
(* app/config.py: the fields class Settings declares, with their defaults  *)
(* (extra="ignore": nothing else is kept on the settings object).          *)
(***************************************************************************)
ACCESS_TOKEN_EXPIRE_MINUTES == 30

Settings ==
  [ DATABASE_URL |-> "env", REDIS_URL |-> "env", SECRET_KEY |-> "env",
    ALGORITHM |-> "HS256", ACCESS_TOKEN_EXPIRE_MINUTES |-> ACCESS_TOKEN_EXPIRE_MINUTES,
    DEBUG |-> FALSE, API_PREFIX |-> "/api",
    REGISTER_RATE_LIMIT |-> "5/minute", LOGIN_RATE_LIMIT |-> "10/minute" ]

\* settings.<name>: reading an attribute the class does not declare raises
\* AttributeError
HasSetting(name) == name \in DOMAIN Settings

(***************************************************************************)
(* app/utils/security.py                                                   *)
(***************************************************************************)
hash_password(password) == [scheme |-> "bcrypt", of |-> password]

verify_password(plain_password, hashed_password) ==
  hashed_password.scheme = "bcrypt" /\ hashed_password.of = plain_password

\* a token: sub = 0 / jti = 0 stand for an absent claim
NoToken == [sig |-> FALSE, token_type |-> "None", sub |-> 0, jti |-> 0, exp |-> 0]
\* expires_delta = None; "if expires_delta:" also takes timedelta(0) for absent
NoDelta == -1
Raised == [raised |-> TRUE, token |-> NoToken]

\* create_access_token forgetting the configured window (expire = now)
create_access_token_no_window(sub, expires_delta, t) ==
  [ sig |-> TRUE, token_type |-> "access", sub |-> sub, jti |-> 0,
    exp |-> IF expires_delta # NoDelta /\ expires_delta # 0 THEN t + expires_delta
            ELSE t ]

create_access_token(sub, expires_delta, t) ==
  [ sig |-> TRUE, token_type |-> "access", sub |-> sub, jti |-> 0,
    exp |-> IF expires_delta # NoDelta /\ expires_delta # 0 THEN t + expires_delta
            ELSE t + Settings.ACCESS_TOKEN_EXPIRE_MINUTES ]

\* uuid is the value uuid4() returns
create_refresh_token(sub, expires_delta, uuid, t) ==
  IF expires_delta # NoDelta /\ expires_delta # 0
  THEN [ raised |-> FALSE,
         token |-> [ sig |-> TRUE, token_type |-> "refresh", sub |-> sub,
                     jti |-> uuid, exp |-> t + expires_delta ] ]
  ELSE IF HasSetting("REFRESH_TOKEN_EXPIRE_DAYS")
       THEN [ raised |-> FALSE,
              token |-> [ sig |-> TRUE, token_type |-> "refresh", sub |-> sub,
                          jti |-> uuid,
                          exp |-> t + Settings["REFRESH_TOKEN_EXPIRE_DAYS"] * 24 * 60 ] ]
       ELSE Raised

\* decode_token with the expiry check switched off (verify_exp = False)
decode_token_noexp(token, t) ==
  IF token.sig THEN token ELSE NoToken

\* jwt.decode: signature check, then exp (ExpiredSignatureError when
\* exp <= now); both failures return None, here NoToken
decode_token(token, t) ==
  IF token.sig /\ token.exp > t THEN token ELSE NoToken

(***************************************************************************)
(* app/services/cache.py: redis is the key space, a function from the keys *)
(* that were set to [value, expire]; an entry is gone once expire <= now.  *)
(***************************************************************************)
NoValue == [user_id |-> 0]
Live(r, key, t) == key \in DOMAIN r /\ r[key].expire > t

\* RedisCache.get answering a missing key with an empty placeholder value
\* (json.loads(raw_data or "{}")) instead of None
RedisCache_get_default(c, r, key, t) ==
  IF c = "None" THEN NoValue
  ELSE IF Live(r, key, t) THEN r[key].value ELSE [user_id |-> -1]

RedisCache_get(c, r, key, t) ==
  IF c = "None" THEN NoValue
  ELSE IF Live(r, key, t) THEN r[key].value ELSE NoValue

\* RedisCache.set storing the value with SET, without a time to live
RedisCache_set_no_expiry(c, r, key, value, ttl, t) ==
  IF c = "None" THEN r
  ELSE (key :> [value |-> value, expire |-> t + ttl + MaxClock]) @@ r

RedisCache_set(c, r, key, value, ttl, t) ==
  IF c = "None" THEN r
  ELSE (key :> [value |-> value, expire |-> t + ttl]) @@ r

\* RedisCache.delete flushing the whole key space (flushdb)
RedisCache_delete_flushdb(c, r, key) ==
  IF c = "None" THEN r
  ELSE <<>>

RedisCache_delete(c, r, key) ==
  IF c = "None" THEN r
  ELSE [k \in DOMAIN r \ {key} |-> r[k]]

(***************************************************************************)
(* app/services/auth_tokens.py                                             *)
(***************************************************************************)
REFRESH_PREFIX == "refresh"
\* the refresh entries kept under the canonical key of the posts listing
RefreshKey_posts_list_key(jti) == <<"posts:list:main">>

RefreshKey(jti) == <<REFRESH_PREFIX, jti>>

\* raises AttributeError before touching the cache when the setting is absent
store_refresh_token(c, r, jti, user_id, t) ==
  IF HasSetting("REFRESH_TOKEN_EXPIRE_DAYS")
  THEN [ raised |-> FALSE,
         redis |-> RedisCache_set(c, r, RefreshKey(jti), [user_id |-> user_id],
                                  Settings["REFRESH_TOKEN_EXPIRE_DAYS"] * 24 * 60, t) ]
  ELSE [ raised |-> TRUE, redis |-> r ]

\* is_refresh_token_active with the test inverted (data is None)
is_refresh_token_active_inverted(c, r, jti, t) ==
  RedisCache_get(c, r, RefreshKey(jti), t) = NoValue

is_refresh_token_active(c, r, jti, t) ==
  RedisCache_get(c, r, RefreshKey(jti), t) # NoValue

revoke_refresh_token(c, r, jti) == RedisCache_delete(c, r, RefreshKey(jti))

(***************************************************************************)
(* Requests and responses                                                  *)
(***************************************************************************)
\* resp: the handler that ran last, the status and detail it answered, the
\* token the request presented and the tokens the response body carries
Response(op, status, detail, token, access, refresh) ==
  [ op |-> op, status |-> status, detail |-> detail, token |-> token,
    access_token |-> access, refresh_token |-> refresh ]

NoResponse == Response("none", 0, "", NoToken, NoToken, NoToken)

\* unhandled_exception_handler (app/utils/exceptions.py)
InternalServerError(op) ==
  Response(op, 500, "Internal server error", NoToken, NoToken, NoToken)

\* bearer strings a client can present: signed tokens that expire at the
\* first tick or after the last one, and a token whose signature fails
TokenExps == {TickStep, MaxTime + TickStep}
AccessTokens ==
  { [sig |-> TRUE, token_type |-> "access", sub |-> u, jti |-> 0, exp |-> e] :
      u \in UserIds, e \in TokenExps }
RefreshTokens ==
  { [sig |-> TRUE, token_type |-> "refresh", sub |-> u, jti |-> j, exp |-> e] :
      u \in UserIds, j \in Jtis, e \in TokenExps }
ForgedTokens ==
  { [sig |-> FALSE, token_type |-> "refresh", sub |-> 1, jti |-> 1,
     exp |-> MaxTime + TickStep] }
Tokens == AccessTokens \cup RefreshTokens \cup ForgedTokens

\* db.query(User).filter(...).first()
UserByEmail(email) == {i \in 1..Len(users) : users[i].email = email}
\* the username lookup filtering on the wrong column (User.email == username)
UserByUsername_wrong_column(username) ==
  {i \in 1..Len(users) : users[i].email = username}

UserByUsername(username) == {i \in 1..Len(users) : users[i].username = username}
UserById(id) == {i \in 1..Len(users) : i = id}

\* no list_posts response: the last step was not a list_posts request
NoListing == [op |-> "none"]
\* no access token minted yet
NoIssued == [token |-> NoToken, sub |-> 0, at |-> 0, expires_delta |-> NoDelta]
\* no request in flight: every request so far ran to its response
ReaderIds == {1}
\* register requests served at the same time
RegisterIds == {1, 2}
IdleTask == [pc |-> "idle", ops |-> <<>>]
NoTasks == [ w |-> IdleTask, r |-> [i \in ReaderIds |-> IdleTask],
            reg |-> [i \in RegisterIds |-> IdleTask] ]

Init ==
  /\ users = <<>>
  /\ redis = <<>>
  /\ now = 0
  /\ client = "None"
  /\ resp = NoResponse
  /\ revocations = [j \in Jtis |-> 0]
  /\ posts = [rows |-> <<>>, serial |-> 0]
  /\ listing = NoListing
  /\ issued = NoIssued
  /\ comments = [rows |-> <<>>, serial |-> 0]
  /\ tasks = NoTasks

\* app/main.py lifespan: cache.connect() before the first request is served
lifespan ==
  /\ client = "None"
  /\ client' = "connected"
  /\ UNCHANGED <<users, redis, now, resp, revocations, posts, listing, issued, comments, tasks>>

Tick ==
  /\ client = "connected"
  /\ now + TickStep <= MaxTime
  /\ now' = now + TickStep
  /\ resp' = Response("tick", 0, "", NoToken, NoToken, NoToken)
  /\ listing' = NoListing
  /\ UNCHANGED <<users, redis, client, revocations, posts, issued, comments, tasks>>

(***************************************************************************)
(* app/routes/auth.py                                                      *)
(***************************************************************************)
\* the HTTPException detail the check raises, "" when the password passes
validate_password_strength(password) ==
  IF Len(password) < 8 THEN "Password must be at least 8 characters"
  ELSE IF ~ \E i \in 1..Len(password) : password[i] \in Letters
       THEN "Password must contain at least one letter"
  ELSE IF ~ \E i \in 1..Len(password) : password[i] \in Digits
       THEN "Password must contain at least one digit"
  ELSE ""

\* the token steps register_user and login_user share (auth.py 119-133 and
\* 160-174): mint both tokens, decode the refresh token, store its jti;
\* uuid is the value uuid4() draws inside create_refresh_token
IssueTokenPair(op, newUsers, id) ==
  \E uuid \in Jtis :
  LET access_token == create_access_token(id, NoDelta, now)
      minted == create_refresh_token(id, NoDelta, uuid, now)
      payload == decode_token(minted.token, now)
      stored == store_refresh_token(client, redis, payload.jti, id, now)
  IN  /\ users' = newUsers
      /\ IF minted.raised
         THEN /\ resp' = InternalServerError(op)
              /\ redis' = redis
         ELSE IF payload = NoToken \/ payload.token_type # "refresh"
         THEN /\ resp' = Response(op, 500, "Invalid refresh token payload",
                                  NoToken, NoToken, NoToken)
              /\ redis' = redis
         ELSE IF stored.raised
         THEN /\ resp' = InternalServerError(op)
              /\ redis' = redis
         ELSE /\ resp' = Response(op, IF op = "register" THEN 201 ELSE 200, "",
                                  NoToken, access_token, minted.token)
              /\ redis' = stored.redis

register_user(email, username, password) ==
  /\ client = "connected"
  /\ UNCHANGED <<now, client, revocations>>
  /\ IF UserByEmail(email) # {}
     THEN /\ resp' = Response("register", 400, "Email already registered",
                              NoToken, NoToken, NoToken)
          /\ UNCHANGED <<users, redis>>
     ELSE IF UserByUsername(username) # {}
     THEN /\ resp' = Response("register", 400, "Username already registered",
                              NoToken, NoToken, NoToken)
          /\ UNCHANGED <<users, redis>>
     ELSE LET db_user == [ email |-> email, username |-> username,
                           hashed_password |-> hash_password(password) ]
              newUsers == Append(users, db_user)
          IN  IssueTokenPair("register", newUsers, Len(newUsers))

\* login_user answering an unknown email with its own 404 before the
\* password check
login_user_unknown_email(email, password) ==
  /\ client = "connected"
  /\ UNCHANGED <<now, client, revocations>>
  /\ IF UserByEmail(email) = {}
     THEN /\ resp' = Response("login", 404, "User not found",
                              NoToken, NoToken, NoToken)
          /\ UNCHANGED <<users, redis>>
     ELSE IF ~ verify_password(password,
                             users[CHOOSE i \in UserByEmail(email) : TRUE].hashed_password)
     THEN /\ resp' = Response("login", 401, "Incorrect username or password",
                              NoToken, NoToken, NoToken)
          /\ UNCHANGED <<users, redis>>
     ELSE IssueTokenPair("login", users, CHOOSE i \in UserByEmail(email) : TRUE)

login_user(email, password) ==
  /\ client = "connected"
  /\ UNCHANGED <<now, client, revocations>>
  /\ IF \/ UserByEmail(email) = {}
        \/ ~ verify_password(password,
                             users[CHOOSE i \in UserByEmail(email) : TRUE].hashed_password)
     THEN /\ resp' = Response("login", 401, "Incorrect username or password",
                              NoToken, NoToken, NoToken)
          /\ UNCHANGED <<users, redis>>
     ELSE IssueTokenPair("login", users, CHOOSE i \in UserByEmail(email) : TRUE)

refresh_token_endpoint(token) ==
  LET payload == decode_token(token, now)
      jti == payload.jti
      user_id == payload.sub
      Reject(detail) == Response("refresh", 401, detail, token, NoToken, NoToken)
  IN  /\ client = "connected"
      /\ UNCHANGED <<users, redis, now, client, revocations>>
      /\ resp' =
           IF payload = NoToken \/ payload.token_type # "refresh"
           THEN Reject("Invalid or expired refresh token")
           ELSE IF jti = 0 \/ user_id = 0
           THEN Reject("Invalid or expired refresh token")
           ELSE IF ~ is_refresh_token_active(client, redis, jti, now)
           THEN Reject("Refresh token has been revoked")
           ELSE IF UserById(user_id) = {}
           THEN Reject("User not found")
           ELSE Response("refresh", 200, "", token,
                         create_access_token(user_id, NoDelta, now), token)

\* logout refusing a jti that is not active (is_refresh_token_active checked
\* before the revoke)
logout_active_only(token) ==
  LET payload == decode_token(token, now)
      jti == payload.jti
      Reject == Response("logout", 401, "Invalid or expired refresh token",
                         token, NoToken, NoToken)
  IN  /\ client = "connected"
      /\ UNCHANGED <<users, now, client>>
      /\ IF \/ payload = NoToken \/ payload.token_type # "refresh" \/ jti = 0
            \/ ~ is_refresh_token_active(client, redis, jti, now)
         THEN /\ resp' = Reject
              /\ UNCHANGED <<redis, revocations>>
         ELSE /\ redis' = revoke_refresh_token(client, redis, jti)
              /\ revocations' =
                   [revocations EXCEPT ![jti] =
                      IF @ < 2 THEN @ + 1 ELSE @]
              /\ resp' = Response("logout", 204, "", token, NoToken, NoToken)

logout(token) ==
  LET payload == decode_token(token, now)
      jti == payload.jti
      Reject == Response("logout", 401, "Invalid or expired refresh token",
                         token, NoToken, NoToken)
  IN  /\ client = "connected"
      /\ UNCHANGED <<users, now, client>>
      /\ IF payload = NoToken \/ payload.token_type # "refresh"
         THEN /\ resp' = Reject
              /\ UNCHANGED <<redis, revocations>>
         ELSE IF jti = 0
         THEN /\ resp' = Reject
              /\ UNCHANGED <<redis, revocations>>
         ELSE /\ redis' = revoke_refresh_token(client, redis, jti)
              /\ revocations' =
                   [revocations EXCEPT ![jti] =
                      IF @ < 2 THEN @ + 1 ELSE @]
              /\ resp' = Response("logout", 204, "", token, NoToken, NoToken)

\* a request to an auth route leaves the posts table alone
AuthRoute == listing' = NoListing /\ UNCHANGED <<posts, issued, comments, tasks>>

Register == /\ \E e \in Emails, u \in Usernames, p \in Passwords :
                 register_user(e, u, p)
            /\ AuthRoute
Login == (\E e \in Emails, p \in Passwords : login_user(e, p)) /\ AuthRoute
Refresh == (\E t \in Tokens : refresh_token_endpoint(t)) /\ AuthRoute
Logout == (\E t \in Tokens : logout(t)) /\ AuthRoute

Next == lifespan \/ Tick \/ Register \/ Login \/ Refresh \/ Logout

Spec == Init /\ [][Next]_vars

(***************************************************************************)
(* app/dependencies.py: the bearer credentials of a request are a token,   *)
(* or NoCredentials when the request has no Authorization header           *)
(* (HTTPBearer(auto_error=False) then hands the dependency None).          *)
(***************************************************************************)
NoCredentials ==
  [sig |-> FALSE, token_type |-> "absent", sub |-> 0, jti |-> 0, exp |-> 0]

\* get_current_user consulting a denylist: no bearer token is accepted once
\* a logout has revoked a session
get_current_user_denylist(credentials, t) ==
  LET payload == decode_token(credentials, t)
      Refuse(detail) == [raised |-> FALSE, status |-> 401, detail |-> detail, user |-> 0]
  IN  IF credentials = NoCredentials
      THEN [raised |-> TRUE, status |-> 500, detail |-> "Internal server error",
            user |-> 0]
      ELSE IF payload = NoToken THEN Refuse("Could not validate credentials")
      ELSE IF \E j \in Jtis : revocations[j] > 0
           THEN Refuse("Could not validate credentials")
      ELSE IF payload.sub = 0 THEN Refuse("Could not validate credentials")
      ELSE IF UserById(payload.sub) = {}
           THEN Refuse("Could not validate credentials")
      ELSE [raised |-> FALSE, status |-> 200, detail |-> "", user |-> payload.sub]

\* get_current_user: credentials.credentials is read first, so absent
\* credentials raise AttributeError before the None test is reached
get_current_user(credentials, t) ==
  LET payload == decode_token(credentials, t)
      Refuse(detail) == [raised |-> FALSE, status |-> 401, detail |-> detail, user |-> 0]
  IN  IF credentials = NoCredentials
      THEN [raised |-> TRUE, status |-> 500, detail |-> "Internal server error",
            user |-> 0]
      ELSE IF payload = NoToken THEN Refuse("Could not validate credentials")
      ELSE IF payload.sub = 0 THEN Refuse("Could not validate credentials")
      ELSE IF UserById(payload.sub) = {}
           THEN Refuse("Could not validate credentials")
      ELSE [raised |-> FALSE, status |-> 200, detail |-> "", user |-> payload.sub]

\* get_current_user_optional: the user id, 0 for None; queried tells whether
\* the users table was read
get_current_user_optional(credentials, t) ==
  LET payload == decode_token(credentials, t)
  IN  IF credentials = NoCredentials THEN [user |-> 0, queried |-> FALSE]
      ELSE IF payload = NoToken THEN [user |-> 0, queried |-> FALSE]
      ELSE IF payload.sub = 0 THEN [user |-> 0, queried |-> FALSE]
      ELSE [ user |-> IF UserById(payload.sub) = {} THEN 0 ELSE payload.sub,
             queried |-> TRUE ]

(***************************************************************************)
(* app/routes/posts.py.  Texts are character sequences.  A row of the      *)
(* posts table is [id, title, content, is_published, user_id, created_at]; *)
(* created_at is the position of the insert in commit order (utcnow at     *)
(* insert time, which grows with every insert).                            *)
(***************************************************************************)
POSTS_CACHE_KEY == <<"posts:list:main">>
SEARCH_CACHE_PREFIX == "posts:search:"
\* f"{SEARCH_CACHE_PREFIX}:q={q}"
SearchKey(q) == <<SEARCH_CACHE_PREFIX, ":q=", q>>

DefaultSkip == 0
DefaultLimit == 10
CACHE_TTL == 5

\* q = None; q = "" is the empty sequence
NoQ == <<"None">>
\* "if q:" - a string is true when it is not None and not empty
Truthy(q) == q # NoQ /\ q # <<>>

Lower(c) ==
  CASE c = "F" -> "f" [] c = "O" -> "o" [] c = "B" -> "b" [] c = "A" -> "a"
    [] c = "R" -> "r" [] OTHER -> c
LowerText(text) == [i \in 1..Len(text) |-> Lower(text[i])]
Contains(text, sub) ==
  \E i \in 0..(Len(text) - Len(sub)) : \A j \in 1..Len(sub) : text[i + j] = sub[j]
\* column.ilike(f"%{q}%")
ilike(text, q) == Contains(LowerText(text), LowerText(q))

\* PostWithAuthor.model_validate(p).model_dump()
PostWithAuthor(p) ==
  [ id |-> p.id, title |-> p.title, content |-> p.content,
    is_published |-> p.is_published, user_id |-> p.user_id,
    created_at |-> p.created_at, author |-> users[p.user_id].username ]

\* the filter letting an authenticated caller see every post when no
\* publication state is asked for
VisibilityFilter_all_for_users(p, is_published, user) ==
  IF is_published = "false"
  THEN IF user = 0 THEN p.is_published = TRUE
       ELSE p.is_published = FALSE /\ p.user_id = user
  ELSE IF is_published = "true" THEN p.is_published = TRUE
  ELSE IF user = 0 THEN p.is_published = TRUE
       ELSE TRUE

\* the is_published / current_user filter of list_posts (lines 111-134);
\* is_published is "None", "true" or "false", user is 0 for an anonymous caller
VisibilityFilter(p, is_published, user) ==
  IF is_published = "false"
  THEN IF user = 0 THEN p.is_published = TRUE
       ELSE p.is_published = FALSE /\ p.user_id = user
  ELSE IF is_published = "true" THEN p.is_published = TRUE
  ELSE IF user = 0 THEN p.is_published = TRUE
       ELSE p.is_published = TRUE \/ p.user_id = user

\* query.order_by(asc(Post.created_at)) / desc(...): every row is put before
\* the rows it precedes in the order asked for
\* the order ignoring the direction asked for
Precedes_ascending(p, r, sort) == p.created_at < r.created_at

Precedes(p, r, sort) ==
  IF sort = "asc" THEN p.created_at < r.created_at
  ELSE p.created_at > r.created_at

RECURSIVE OrderBy(_, _)
OrderBy(rows, sort) ==
  IF rows = <<>> THEN <<>>
  ELSE LET rest == OrderBy(Tail(rows), sort)
           k == Cardinality({i \in 1..Len(rest) : Precedes(rest[i], Head(rows), sort)})
       IN  SubSeq(rest, 1, k) \o <<Head(rows)>> \o SubSeq(rest, k + 1, Len(rest))

\* query.offset(skip).limit(limit).all()
OffsetLimit(rows, skip, limit) ==
  IF skip >= Len(rows) THEN <<>>
  ELSE SubSeq(rows, skip + 1,
              IF skip + limit < Len(rows) THEN skip + limit ELSE Len(rows))

\* the length guard with the bound one too low (len(q) < 2)
TooShort_off_by_one(q) == Len(q) < 2

\* len(q) < 3
TooShort(q) == Len(q) < 3

\* the response of list_posts: the request, the user the optional dependency
\* resolved (0: anonymous), the body, the cache keys read and written, the
\* tables queried, and whether the previous request was a successful write
\* to the posts table
Listing(skip, limit, sort, is_published, q, user, result, reads, writes, queried) ==
  [ op |-> "list_posts", skip |-> skip, limit |-> limit, sort |-> sort,
    is_published |-> is_published, q |-> q, caller |-> user, result |-> result,
    cache_reads |-> reads, cache_writes |-> writes, queried |-> queried,
    after_write |-> ( /\ resp.op \in {"create_post", "update_post", "delete_post"}
                      /\ resp.status \in {200, 201, 204} ) ]

\* list_posts using the cache whoever the caller is (current_user is None
\* dropped from use_cache and from the search-cache conditions)
list_posts_cache_for_users(skip, limit, sort, is_published, q, credentials) ==
  LET current_user == get_current_user_optional(credentials, now)
      user == current_user.user
      use_cache == /\ skip = 0 /\ limit = 10 /\ sort = "desc"
                   /\ is_published = "None" /\ q = NoQ
      use_search_cache == /\ Truthy(q) /\ skip = 0 /\ limit = 10
                          /\ sort = "desc"
      search_cache_key == SearchKey(q)
      cached_search == RedisCache_get(client, redis, search_cache_key, now)
      cached == RedisCache_get(client, redis, POSTS_CACHE_KEY, now)
      Keep(p) == /\ VisibilityFilter(p, is_published, user)
                 /\ Truthy(q) => (ilike(p.title, q) \/ ilike(p.content, q))
      rows == OffsetLimit(OrderBy(SelectSeq(posts.rows, Keep), sort), skip, limit)
      data == [i \in 1..Len(rows) |-> PostWithAuthor(rows[i])]
      reads == (IF use_search_cache THEN {search_cache_key} ELSE {})
               \cup (IF use_cache THEN {POSTS_CACHE_KEY} ELSE {})
      users_read == IF current_user.queried THEN {"users"} ELSE {}
      Answer(result, writes, queried) ==
        Listing(skip, limit, sort, is_published, q, user, result, reads, writes,
                users_read \cup queried)
  IN  /\ client = "connected"
      /\ resp' = Response("list_posts", 200, "", credentials, NoToken, NoToken)
      /\ UNCHANGED <<users, now, client, revocations, posts, issued, comments, tasks>>
      /\ IF use_search_cache /\ cached_search # NoValue
         THEN listing' = Answer(cached_search.items, {}, {}) /\ redis' = redis
         ELSE IF use_cache /\ cached # NoValue
         THEN listing' = Answer(cached.items, {}, {}) /\ redis' = redis
         ELSE IF Truthy(q) /\ TooShort(q)
         THEN listing' = Answer(<<>>, {}, {}) /\ redis' = redis
         ELSE IF use_cache
         THEN /\ listing' = Answer(data, {POSTS_CACHE_KEY}, {"posts"})
              /\ redis' = RedisCache_set(client, redis, POSTS_CACHE_KEY,
                                         [items |-> data], CACHE_TTL, now)
         ELSE IF use_search_cache
         THEN /\ listing' = Answer(data, {search_cache_key}, {"posts"})
              /\ redis' = RedisCache_set(client, redis, search_cache_key,
                                         [items |-> data], CACHE_TTL, now)
         ELSE listing' = Answer(data, {}, {"posts"}) /\ redis' = redis

list_posts(skip, limit, sort, is_published, q, credentials) ==
  LET current_user == get_current_user_optional(credentials, now)
      user == current_user.user
      use_cache == /\ skip = 0 /\ limit = 10 /\ sort = "desc"
                   /\ is_published = "None" /\ user = 0 /\ q = NoQ
      use_search_cache == /\ Truthy(q) /\ skip = 0 /\ limit = 10
                          /\ sort = "desc" /\ user = 0
      search_cache_key == SearchKey(q)
      cached_search == RedisCache_get(client, redis, search_cache_key, now)
      cached == RedisCache_get(client, redis, POSTS_CACHE_KEY, now)
      Keep(p) == /\ VisibilityFilter(p, is_published, user)
                 /\ Truthy(q) => (ilike(p.title, q) \/ ilike(p.content, q))
      rows == OffsetLimit(OrderBy(SelectSeq(posts.rows, Keep), sort), skip, limit)
      data == [i \in 1..Len(rows) |-> PostWithAuthor(rows[i])]
      reads == (IF use_search_cache THEN {search_cache_key} ELSE {})
               \cup (IF use_cache THEN {POSTS_CACHE_KEY} ELSE {})
      users_read == IF current_user.queried THEN {"users"} ELSE {}
      Answer(result, writes, queried) ==
        Listing(skip, limit, sort, is_published, q, user, result, reads, writes,
                users_read \cup queried)
  IN  /\ client = "connected"
      /\ resp' = Response("list_posts", 200, "", credentials, NoToken, NoToken)
      /\ UNCHANGED <<users, now, client, revocations, posts, issued, comments, tasks>>
      /\ IF use_search_cache /\ cached_search # NoValue
         THEN listing' = Answer(cached_search.items, {}, {}) /\ redis' = redis
         ELSE IF use_cache /\ cached # NoValue
         THEN listing' = Answer(cached.items, {}, {}) /\ redis' = redis
         ELSE IF Truthy(q) /\ TooShort(q)
         THEN listing' = Answer(<<>>, {}, {}) /\ redis' = redis
         ELSE IF use_cache
         THEN /\ listing' = Answer(data, {POSTS_CACHE_KEY}, {"posts"})
              /\ redis' = RedisCache_set(client, redis, POSTS_CACHE_KEY,
                                         [items |-> data], CACHE_TTL, now)
         ELSE IF use_search_cache
         THEN /\ listing' = Answer(data, {search_cache_key}, {"posts"})
              /\ redis' = RedisCache_set(client, redis, search_cache_key,
                                         [items |-> data], CACHE_TTL, now)
         ELSE listing' = Answer(data, {}, {"posts"}) /\ redis' = redis

\* what the write handlers answer when the required dependency refuses
Unauthorized(op, current_user, credentials) ==
  Response(op, current_user.status, current_user.detail, credentials,
           NoToken, NoToken)

PostById(post_id) == {i \in 1..Len(posts.rows) : posts.rows[i].id = post_id}

\* create_post without the cache.delete(POSTS_CACHE_KEY) after the commit
create_post_no_invalidation(credentials, title, content, is_published) ==
  LET current_user == get_current_user(credentials, now)
      db_post == [ id |-> posts.serial + 1, title |-> title, content |-> content,
                   is_published |-> is_published, user_id |-> current_user.user,
                   created_at |-> posts.serial + 1 ]
  IN  /\ client = "connected"
      /\ listing' = NoListing
      /\ UNCHANGED <<users, now, client, revocations, issued, comments, tasks>>
      /\ IF current_user.status # 200
         THEN /\ resp' = Unauthorized("create_post", current_user, credentials)
              /\ UNCHANGED <<posts, redis>>
         ELSE /\ posts' = [rows |-> Append(posts.rows, db_post),
                           serial |-> posts.serial + 1]
              /\ redis' = redis
              /\ resp' = Response("create_post", 201, "", credentials,
                                  NoToken, NoToken)

create_post(credentials, title, content, is_published) ==
  LET current_user == get_current_user(credentials, now)
      db_post == [ id |-> posts.serial + 1, title |-> title, content |-> content,
                   is_published |-> is_published, user_id |-> current_user.user,
                   created_at |-> posts.serial + 1 ]
  IN  /\ client = "connected"
      /\ listing' = NoListing
      /\ UNCHANGED <<users, now, client, revocations, issued, comments, tasks>>
      /\ IF current_user.status # 200
         THEN /\ resp' = Unauthorized("create_post", current_user, credentials)
              /\ UNCHANGED <<posts, redis>>
         ELSE /\ posts' = [rows |-> Append(posts.rows, db_post),
                           serial |-> posts.serial + 1]
              /\ redis' = RedisCache_delete(client, redis, POSTS_CACHE_KEY)
              /\ resp' = Response("create_post", 201, "", credentials,
                                  NoToken, NoToken)

\* update_post without the ownership test (lines 226-230)
update_post_no_owner_check(credentials, post_id, update_data) ==
  LET current_user == get_current_user(credentials, now)
      Refuse(status, detail) ==
        Response("update_post", status, detail, credentials, NoToken, NoToken)
      i == CHOOSE k \in PostById(post_id) : TRUE
      db_post == [f \in DOMAIN posts.rows[i] |->
                    IF f \in DOMAIN update_data THEN update_data[f]
                    ELSE posts.rows[i][f]]
  IN  /\ client = "connected"
      /\ listing' = NoListing
      /\ UNCHANGED <<users, now, client, revocations, issued, comments, tasks>>
      /\ IF current_user.status # 200
         THEN /\ resp' = Unauthorized("update_post", current_user, credentials)
              /\ UNCHANGED <<posts, redis>>
         ELSE IF PostById(post_id) = {}
         THEN resp' = Refuse(404, "Post not found") /\ UNCHANGED <<posts, redis>>
         ELSE /\ posts' = [posts EXCEPT !.rows[i] = db_post]
              /\ redis' = RedisCache_delete(client, redis, POSTS_CACHE_KEY)
              /\ resp' = Response("update_post", 200, "", credentials,
                                  NoToken, NoToken)

\* update_data is post_update.model_dump(exclude_unset=True): a function from
\* the fields the request set to their values
update_post(credentials, post_id, update_data) ==
  LET current_user == get_current_user(credentials, now)
      Refuse(status, detail) ==
        Response("update_post", status, detail, credentials, NoToken, NoToken)
      i == CHOOSE k \in PostById(post_id) : TRUE
      db_post == [f \in DOMAIN posts.rows[i] |->
                    IF f \in DOMAIN update_data THEN update_data[f]
                    ELSE posts.rows[i][f]]
  IN  /\ client = "connected"
      /\ listing' = NoListing
      /\ UNCHANGED <<users, now, client, revocations, issued, comments, tasks>>
      /\ IF current_user.status # 200
         THEN /\ resp' = Unauthorized("update_post", current_user, credentials)
              /\ UNCHANGED <<posts, redis>>
         ELSE IF PostById(post_id) = {}
         THEN resp' = Refuse(404, "Post not found") /\ UNCHANGED <<posts, redis>>
         ELSE IF posts.rows[i].user_id # current_user.user
         THEN /\ resp' = Refuse(403, "Not enough permissions")
              /\ UNCHANGED <<posts, redis>>
         ELSE /\ posts' = [posts EXCEPT !.rows[i] = db_post]
              /\ redis' = RedisCache_delete(client, redis, POSTS_CACHE_KEY)
              /\ resp' = Response("update_post", 200, "", credentials,
                                  NoToken, NoToken)

\* Post.comments is mapped cascade="all, delete-orphan" (models.py:42):
\* deleting a post deletes the comments under it
CascadeDelete(rows, post_id) ==
  LET Other(c) == c.post_id # post_id IN SelectSeq(rows, Other)

delete_post(credentials, post_id) ==
  LET current_user == get_current_user(credentials, now)
      Refuse(status, detail) ==
        Response("delete_post", status, detail, credentials, NoToken, NoToken)
      i == CHOOSE k \in PostById(post_id) : TRUE
  IN  /\ client = "connected"
      /\ listing' = NoListing
      /\ UNCHANGED <<users, now, client, revocations, issued, tasks>>
      /\ IF current_user.status # 200
         THEN /\ resp' = Unauthorized("delete_post", current_user, credentials)
              /\ UNCHANGED <<posts, redis, comments>>
         ELSE IF PostById(post_id) = {}
         THEN /\ resp' = Refuse(404, "Post not found")
              /\ UNCHANGED <<posts, redis, comments>>
         ELSE IF posts.rows[i].user_id # current_user.user
         THEN /\ resp' = Refuse(403, "Not enough permissions")
              /\ UNCHANGED <<posts, redis, comments>>
         ELSE /\ posts' = [posts EXCEPT !.rows =
                             [k \in 1..(Len(posts.rows) - 1) |->
                                IF k < i THEN posts.rows[k] ELSE posts.rows[k + 1]]]
              /\ comments' = [comments EXCEPT !.rows = CascadeDelete(@, post_id)]
              /\ redis' = RedisCache_delete(client, redis, POSTS_CACHE_KEY)
              /\ resp' = Response("delete_post", 204, "", credentials,
                                  NoToken, NoToken)

(***************************************************************************)
(* The posts routes under requests of every shape: two visitors sign up,   *)
(* each holds an access token, and anybody lists.                          *)
(***************************************************************************)
Visitors == << [email |-> "a@x.io", username |-> "ann"],
               [email |-> "b@x.io", username |-> "bob"] >>

SignUp ==
  /\ Len(users) < Len(Visitors)
  /\ register_user(Visitors[Len(users) + 1].email,
                   Visitors[Len(users) + 1].username, PwValid)
  /\ AuthRoute

\* access tokens that stay valid over the whole run
BearerTokens == {t \in AccessTokens : t.exp = MaxTime + TickStep}

PostTitle == <<"F", "o", "o", "b", "a", "r">>
PostContent == <<"b", "o", "d", "y">>
Qs == {NoQ, <<>>, <<"f", "o">>, <<"F", "O", "O">>}
Skips == {DefaultSkip, 1}
Limits == {1, DefaultLimit}
Sorts == {"asc", "desc"}
PublishedFilters == {"None", "true", "false"}

CreatePost ==
  /\ posts.serial < MaxPosts
  /\ \E c \in BearerTokens, b \in BOOLEAN :
       create_post(c, PostTitle, PostContent, b)

UpdatePost ==
  \E c \in BearerTokens, post_id \in 1..MaxPosts, b \in BOOLEAN :
    update_post(c, post_id, [is_published |-> b])

DeletePost ==
  \E c \in BearerTokens, post_id \in 1..MaxPosts : delete_post(c, post_id)

\* the list requests made: every filter, search term and caller on the
\* default page; the other pages with the plain and the searched feed
Readers == {NoCredentials} \cup {t \in BearerTokens : t.sub = 1}
ListRequests ==
  { r \in [ skip : Skips, limit : Limits, sort : Sorts,
            is_published : PublishedFilters, q : Qs, credentials : Readers ] :
      \/ r.skip = DefaultSkip /\ r.limit = DefaultLimit /\ r.sort = "desc"
      \/ r.is_published = "None" /\ r.q \in {NoQ, <<"F", "O", "O">>} }

ListPosts ==
  \E r \in ListRequests :
    list_posts(r.skip, r.limit, r.sort, r.is_published, r.q, r.credentials)

PostsNext ==
  lifespan \/ Tick \/ SignUp \/ CreatePost \/ UpdatePost \/ DeletePost \/ ListPosts

PostsSpec == Init /\ [][PostsNext]_vars

(***************************************************************************)
(* The feed: one author creates post after post, published or not, and    *)
(* the default page is listed in between, by anybody or by the author.     *)
(***************************************************************************)
FeedSignUp == Len(users) = 0 /\ SignUp

FeedCreate ==
  /\ posts.serial < MaxFeed
  /\ \E c \in Readers \ {NoCredentials}, b \in BOOLEAN :
       create_post(c, PostTitle, PostContent, b)

FeedList ==
  \E c \in Readers :
    list_posts(DefaultSkip, DefaultLimit, "desc", "None", NoQ, c)

FeedNext == lifespan \/ FeedSignUp \/ FeedCreate \/ FeedList

FeedSpec == Init /\ [][FeedNext]_vars

(***************************************************************************)
(* The write routes under credentials of every kind, over a clock that     *)
(* lets a token expire.                                                    *)
(***************************************************************************)
\* what a write request can carry for credentials: nothing, a token whose
\* signature fails, an access token (one that expires at the first tick or
\* one that outlives the run, of either visitor), an access token without a
\* subject, a refresh token
WriterCredentials ==
  {NoCredentials} \cup ForgedTokens \cup AccessTokens
    \cup { [sig |-> TRUE, token_type |-> "access", sub |-> 0, jti |-> 0,
            exp |-> MaxTime + TickStep] }
    \cup {t \in RefreshTokens : t.sub = 1 /\ t.jti = 1 /\ t.exp = MaxTime + TickStep}

WriteCreate ==
  /\ posts.serial < MaxPosts
  /\ \E c \in WriterCredentials, b \in BOOLEAN :
       create_post(c, PostTitle, PostContent, b)

WriteUpdate ==
  \E c \in WriterCredentials, post_id \in 1..MaxPosts, b \in BOOLEAN :
    update_post(c, post_id, [is_published |-> b])

WriteDelete ==
  \E c \in WriterCredentials, post_id \in 1..MaxPosts : delete_post(c, post_id)

WriteNext ==
  lifespan \/ Tick \/ SignUp \/ WriteCreate \/ WriteUpdate \/ WriteDelete

WriteSpec == Init /\ [][WriteNext]_vars

(***************************************************************************)
(* Sessions: visitors sign up, refresh tokens are logged out, time passes, *)
(* and posts are created under access tokens of either lifetime.           *)
(***************************************************************************)
SessionWrite ==
  /\ posts.serial < MaxPosts
  /\ \E c \in AccessTokens, b \in BOOLEAN :
       create_post(c, PostTitle, PostContent, b)

SessionNext == lifespan \/ Tick \/ SignUp \/ Logout \/ SessionWrite

SessionSpec == Init /\ [][SessionNext]_vars

(***************************************************************************)
(* app/models.py, app/services/comment_service.py, app/routes/comments.py. *)
(* A row of the comments table is [id, user_id, post_id, created_at];      *)
(* created_at is the position of the insert in commit order.               *)
(***************************************************************************)
\* the attributes class Comment maps (models.py 51-59): it has no content
CommentAttributes ==
  {"id", "user_id", "post_id", "created_at", "updated_at", "author", "post"}

COMMENTS_CACHE_KEY == "comments"
\* f"{COMMENTS_CACHE_KEY}:{post_id}:sort={sort}"
CommentsKey(post_id, sort) == <<COMMENTS_CACHE_KEY, ":", post_id, ":sort=", sort>>

CommentsDefaultLimit == 50

invalidate_comments_cache(c, r, post_id) ==
  RedisCache_delete(c, RedisCache_delete(c, r, CommentsKey(post_id, "desc")),
                    CommentsKey(post_id, "asc"))

get_post_by_id(post_id) == PostById(post_id)

\* Comment(content=..., user_id=..., post_id=...): the declarative
\* constructor raises TypeError for a keyword the class does not map, before
\* db.add and db.commit are reached
create_comment_for_post(post_id, author, content) ==
  IF {"content", "user_id", "post_id"} \subseteq CommentAttributes
  THEN [ raised |-> FALSE,
         row |-> [ id |-> comments.serial + 1, content |-> content,
                   user_id |-> author, post_id |-> post_id,
                   created_at |-> comments.serial + 1 ] ]
  ELSE [ raised |-> TRUE, row |-> <<>> ]

list_comments_for_post(post_id) ==
  LET OfPost(c) == c.post_id = post_id
  IN  OrderBy(SelectSeq(comments.rows, OfPost), "desc")

get_comment_for_post(post_id, comment_id) ==
  { i \in 1..Len(comments.rows) :
      comments.rows[i].id = comment_id /\ comments.rows[i].post_id = post_id }

\* the result of update_comment_for_user / delete_comment_for_user before
\* the commit: "None" (not found), "False" (not the owner) or "commit"
CommentWriteCheck(post_id, comment_id, current_user) ==
  LET found == get_comment_for_post(post_id, comment_id)
  IN  IF found = {} THEN "None"
      ELSE IF comments.rows[CHOOSE i \in found : TRUE].user_id # current_user
      THEN "False"
      ELSE "commit"

update_comment_for_user(post_id, comment_id, content) ==
  LET i == CHOOSE k \in get_comment_for_post(post_id, comment_id) : TRUE
  IN  [comments EXCEPT !.rows[i] =
         [f \in DOMAIN @ \cup {"content"} |-> IF f = "content" THEN content ELSE @[f]]]

delete_comment_for_user(post_id, comment_id) ==
  LET i == CHOOSE k \in get_comment_for_post(post_id, comment_id) : TRUE
  IN  [comments EXCEPT !.rows =
         [k \in 1..(Len(@) - 1) |-> IF k < i THEN @[k] ELSE @[k + 1]]]

\* the answer of a comments route: the response and the post the path names
CommentResponse(op, status, detail, credentials, post_id) ==
  [ op |-> op, status |-> status, detail |-> detail, token |-> credentials,
    access_token |-> NoToken, refresh_token |-> NoToken, post_id |-> post_id ]

\* CommentWithAuthor.model_validate(c, from_attributes=True).model_dump()
CommentWithAuthor(c) ==
  [ id |-> c.id, content |-> c.content, user_id |-> c.user_id,
    post_id |-> c.post_id, created_at |-> c.created_at,
    author |-> users[c.user_id].username ]

create_comment(credentials, post_id, content) ==
  LET current_user == get_current_user(credentials, now)
      db_comment == create_comment_for_post(post_id, current_user.user, content)
      Answer(status, detail) ==
        CommentResponse("create_comment", status, detail, credentials, post_id)
  IN  /\ client = "connected"
      /\ listing' = NoListing
      /\ UNCHANGED <<users, now, client, revocations, posts, issued, tasks>>
      /\ IF current_user.status # 200
         THEN /\ resp' = Answer(current_user.status, current_user.detail)
              /\ UNCHANGED <<comments, redis>>
         ELSE IF get_post_by_id(post_id) = {}
         THEN /\ resp' = Answer(404, "Post not found")
              /\ UNCHANGED <<comments, redis>>
         ELSE IF db_comment.raised
         THEN /\ resp' = Answer(500, "Internal server error")
              /\ UNCHANGED <<comments, redis>>
         ELSE /\ comments' = [rows |-> Append(comments.rows, db_comment.row),
                              serial |-> comments.serial + 1]
              /\ redis' = invalidate_comments_cache(client, redis, post_id)
              /\ resp' = Answer(201, "")

\* the response of list_comments: the request, the body, the cache keys read
\* and written
CommentListing(post_id, skip, limit, sort, result, reads, writes) ==
  [ op |-> "list_comments", post_id |-> post_id, skip |-> skip, limit |-> limit,
    sort |-> sort, result |-> result, cache_reads |-> reads,
    cache_writes |-> writes ]

list_comments(post_id, skip, limit, sort) ==
  LET use_cache == skip = 0 /\ limit = 50
      cache_key == CommentsKey(post_id, sort)
      cached == RedisCache_get(client, redis, cache_key, now)
      sorted == OrderBy(list_comments_for_post(post_id), sort)
      comments_slice == OffsetLimit(sorted, skip, limit)
      data == [i \in 1..Len(comments_slice) |-> CommentWithAuthor(comments_slice[i])]
      reads == IF use_cache THEN {cache_key} ELSE {}
  IN  /\ client = "connected"
      /\ UNCHANGED <<users, now, client, revocations, posts, issued, comments, tasks>>
      /\ IF get_post_by_id(post_id) = {}
         THEN /\ resp' = CommentResponse("list_comments", 404, "Post not found",
                                         NoCredentials, post_id)
              /\ listing' = NoListing
              /\ redis' = redis
         ELSE /\ resp' = CommentResponse("list_comments", 200, "", NoCredentials,
                                         post_id)
              /\ IF use_cache /\ cached # NoValue
                 THEN /\ listing' = CommentListing(post_id, skip, limit, sort,
                                                   cached.items, reads, {})
                      /\ redis' = redis
                 ELSE IF use_cache
                 THEN /\ listing' = CommentListing(post_id, skip, limit, sort,
                                                   data, reads, {cache_key})
                      /\ redis' = RedisCache_set(client, redis, cache_key,
                                                 [items |-> data], CACHE_TTL, now)
                 ELSE /\ listing' = CommentListing(post_id, skip, limit, sort,
                                                   data, reads, {})
                      /\ redis' = redis

update_comment(credentials, post_id, comment_id, content) ==
  LET current_user == get_current_user(credentials, now)
      result == CommentWriteCheck(post_id, comment_id, current_user.user)
      Answer(status, detail) ==
        CommentResponse("update_comment", status, detail, credentials, post_id)
  IN  /\ client = "connected"
      /\ listing' = NoListing
      /\ UNCHANGED <<users, now, client, revocations, posts, issued, tasks>>
      /\ IF current_user.status # 200
         THEN /\ resp' = Answer(current_user.status, current_user.detail)
              /\ UNCHANGED <<comments, redis>>
         ELSE IF result = "None"
         THEN /\ resp' = Answer(404, "Comment not found")
              /\ UNCHANGED <<comments, redis>>
         ELSE IF result = "False"
         THEN /\ resp' = Answer(403, "You are not allowed to update this comment")
              /\ UNCHANGED <<comments, redis>>
         ELSE /\ comments' = update_comment_for_user(post_id, comment_id, content)
              /\ redis' = invalidate_comments_cache(client, redis, post_id)
              /\ resp' = Answer(200, "")

delete_comment(credentials, post_id, comment_id) ==
  LET current_user == get_current_user(credentials, now)
      result == CommentWriteCheck(post_id, comment_id, current_user.user)
      Answer(status, detail) ==
        CommentResponse("delete_comment", status, detail, credentials, post_id)
  IN  /\ client = "connected"
      /\ listing' = NoListing
      /\ UNCHANGED <<users, now, client, revocations, posts, issued, tasks>>
      /\ IF current_user.status # 200
         THEN /\ resp' = Answer(current_user.status, current_user.detail)
              /\ UNCHANGED <<comments, redis>>
         ELSE IF result = "None"
         THEN /\ resp' = Answer(404, "Comment not found")
              /\ UNCHANGED <<comments, redis>>
         ELSE IF result = "False"
         THEN /\ resp' = Answer(403, "You are not allowed to delete this comment")
              /\ UNCHANGED <<comments, redis>>
         ELSE /\ comments' = delete_comment_for_user(post_id, comment_id)
              /\ redis' = invalidate_comments_cache(client, redis, post_id)
              /\ resp' = Answer(204, "")

(***************************************************************************)
(* Posts and comments together: visitors sign up, write posts, comment on  *)
(* them, and anybody lists the feed, a search and the comments of a post.  *)
(***************************************************************************)
CommentContent == <<"h", "i">>
CommentIds == {1}
CommentWindows == { [skip |-> 0, limit |-> CommentsDefaultLimit],
                    [skip |-> 1, limit |-> CommentsDefaultLimit] }

FeedOrSearch ==
  \E q \in {NoQ, <<"F", "O", "O">>} :
    list_posts(DefaultSkip, DefaultLimit, "desc", "None", q, NoCredentials)

CreateComment ==
  \E c \in BearerTokens, post_id \in 1..MaxPosts :
    create_comment(c, post_id, CommentContent)

UpdateComment ==
  \E c \in BearerTokens, post_id \in 1..MaxPosts, comment_id \in CommentIds :
    update_comment(c, post_id, comment_id, CommentContent)

DeleteComment ==
  \E c \in BearerTokens, post_id \in 1..MaxPosts, comment_id \in CommentIds :
    delete_comment(c, post_id, comment_id)

ListComments ==
  \E post_id \in 1..MaxPosts, w \in CommentWindows, sort \in Sorts :
    list_comments(post_id, w.skip, w.limit, sort)

CommentsNext ==
  \/ lifespan \/ SignUp \/ CreatePost \/ UpdatePost \/ DeletePost \/ FeedOrSearch
  \/ CreateComment \/ UpdateComment \/ DeleteComment \/ ListComments

CommentsSpec == Init /\ [][CommentsNext]_vars

(***************************************************************************)
(* Concurrent requests.  Every request is its own task; a handler gives up *)
(* control at each await on the cache (cache.get, cache.set, cache.delete) *)
(* and each operation on Redis or on the database is atomic, so the store  *)
(* operations of requests in flight interleave.  One write request and     *)
(* one default anonymous listing per reader of ReaderIds are in flight at  *)
(* a time; each is followed by the next request of its kind.               *)
(* tasks.w and tasks.r[i] hold the position of each request and ops, the   *)
(* store operations the request has performed so far, in order.            *)
(***************************************************************************)
WriteOps == {"create_post", "update_post", "delete_post"}
CommentWriteOps == {"create_comment", "update_comment", "delete_comment"}
WriteRequests ==
  [ op : WriteOps \cup CommentWriteOps, credentials : BearerTokens,
    post_id : 1..MaxPosts, comment_id : CommentIds, is_published : BOOLEAN ]

\* the handler of a write request up to its db.commit(): the status it
\* answers, the tables after the commit and the cache keys it deletes next
BeforeInvalidation(req) ==
  LET current_user == get_current_user(req.credentials, now)
      i == CHOOSE k \in PostById(req.post_id) : TRUE
      db_post == [ id |-> posts.serial + 1, title |-> PostTitle,
                   content |-> PostContent, is_published |-> req.is_published,
                   user_id |-> current_user.user, created_at |-> posts.serial + 1 ]
      db_comment == create_comment_for_post(req.post_id, current_user.user,
                                            CommentContent)
      result == CommentWriteCheck(req.post_id, req.comment_id, current_user.user)
      Out(status, detail, newPosts, newComments, keys) ==
        [ status |-> status, detail |-> detail, posts |-> newPosts,
          comments |-> newComments, keys |-> keys ]
      Refuse(status, detail) == Out(status, detail, posts, comments, <<>>)
      CommentKeys == << CommentsKey(req.post_id, "desc"),
                        CommentsKey(req.post_id, "asc") >>
  IN  IF current_user.status # 200
      THEN Refuse(current_user.status, current_user.detail)
      ELSE IF req.op = "create_post"
      THEN Out(201, "", [rows |-> Append(posts.rows, db_post),
                         serial |-> posts.serial + 1], comments,
               <<POSTS_CACHE_KEY>>)
      ELSE IF req.op \in {"update_post", "delete_post"}
      THEN IF PostById(req.post_id) = {} THEN Refuse(404, "Post not found")
           ELSE IF posts.rows[i].user_id # current_user.user
           THEN Refuse(403, "Not enough permissions")
           ELSE IF req.op = "update_post"
           THEN Out(200, "",
                    [posts EXCEPT !.rows[i].is_published = req.is_published],
                    comments, <<POSTS_CACHE_KEY>>)
           ELSE Out(204, "",
                    [posts EXCEPT !.rows =
                       [k \in 1..(Len(@) - 1) |-> IF k < i THEN @[k] ELSE @[k + 1]]],
                    [comments EXCEPT !.rows = CascadeDelete(@, req.post_id)],
                    <<POSTS_CACHE_KEY>>)
      ELSE IF req.op = "create_comment"
      THEN IF get_post_by_id(req.post_id) = {} THEN Refuse(404, "Post not found")
           ELSE IF db_comment.raised THEN Refuse(500, "Internal server error")
           ELSE Out(201, "", posts,
                    [rows |-> Append(comments.rows, db_comment.row),
                     serial |-> comments.serial + 1], CommentKeys)
      ELSE IF result = "None" THEN Refuse(404, "Comment not found")
      ELSE IF result = "False"
      THEN Refuse(403, IF req.op = "update_comment"
                       THEN "You are not allowed to update this comment"
                       ELSE "You are not allowed to delete this comment")
      ELSE IF req.op = "update_comment"
      THEN Out(200, "", posts,
               update_comment_for_user(req.post_id, req.comment_id, CommentContent),
               CommentKeys)
      ELSE Out(204, "", posts,
               delete_comment_for_user(req.post_id, req.comment_id), CommentKeys)

WriteResponse(req, status, detail) ==
  IF req.op \in CommentWriteOps
  THEN CommentResponse(req.op, status, detail, req.credentials, req.post_id)
  ELSE Response(req.op, status, detail, req.credentials, NoToken, NoToken)

\* the write request issuing its invalidation first and committing after it
CommitStep_invalidate_first(req, db_ok) ==
  LET out == BeforeInvalidation(req)
  IN  /\ client = "connected"
      /\ tasks.w.pc = "idle"
      /\ listing' = NoListing
      /\ UNCHANGED <<users, now, client, revocations, issued>>
      /\ IF out.status \notin {200, 201, 204}
         THEN /\ resp' = WriteResponse(req, out.status, out.detail)
              /\ tasks' = [tasks EXCEPT !.w = [pc |-> "idle", ops |-> <<>>]]
              /\ UNCHANGED <<posts, comments, redis>>
         ELSE /\ redis' = RedisCache_delete(client, redis, out.keys[1])
              /\ posts' = out.posts
              /\ comments' = out.comments
              /\ resp' = resp
              /\ tasks' = [tasks EXCEPT !.w =
                             [ pc |-> "invalidate", ops |-> <<"delete", "commit">>,
                               req |-> req, status |-> out.status,
                               keys |-> out.keys ]]

\* a write request runs from its dependencies to db.commit(); db_ok tells
\* whether the commit goes through (a failed commit raises: 500, and the
\* session is closed without the change)
CommitStep(req, db_ok) ==
  LET out == BeforeInvalidation(req)
  IN  /\ client = "connected"
      /\ tasks.w.pc = "idle"
      /\ listing' = NoListing
      /\ UNCHANGED <<users, now, client, revocations, issued, redis>>
      /\ IF out.status \notin {200, 201, 204}
         THEN /\ resp' = WriteResponse(req, out.status, out.detail)
              /\ tasks' = [tasks EXCEPT !.w = [pc |-> "idle", ops |-> <<>>]]
              /\ UNCHANGED <<posts, comments>>
         ELSE IF ~ db_ok
         THEN /\ resp' = WriteResponse(req, 500, "Internal server error")
              /\ tasks' = [tasks EXCEPT !.w =
                             [pc |-> "idle", ops |-> <<"commit failed">>]]
              /\ UNCHANGED <<posts, comments>>
         ELSE /\ posts' = out.posts
              /\ comments' = out.comments
              /\ resp' = resp
              /\ tasks' = [tasks EXCEPT !.w =
                             [ pc |-> "invalidate", ops |-> <<"commit">>,
                               req |-> req, status |-> out.status,
                               keys |-> out.keys ]]

RECURSIVE DeleteKeys(_, _, _)
DeleteKeys(c, r, keys) ==
  IF keys = <<>> THEN r
  ELSE DeleteKeys(c, RedisCache_delete(c, r, Head(keys)), Tail(keys))

\* the rest of the write request: await cache.delete(...) for each key, then
\* the response
InvalidateStep ==
  LET w == tasks.w
  IN  /\ w.pc = "invalidate"
      /\ redis' = DeleteKeys(client, redis, w.keys)
      /\ resp' = WriteResponse(w.req, w.status, "")
      /\ tasks' = [tasks EXCEPT !.w =
                     [ pc |-> "idle",
                       ops |-> w.ops \o [k \in 1..Len(w.keys) |-> "delete"] ]]
      /\ listing' = NoListing
      /\ UNCHANGED <<users, now, client, revocations, issued, posts, comments>>

\* the posts query of the default anonymous listing (posts.py 108-150)
DefaultFeedQuery ==
  LET Keep(p) == VisibilityFilter(p, "None", 0)
      rows == OffsetLimit(OrderBy(SelectSeq(posts.rows, Keep), "desc"),
                          DefaultSkip, DefaultLimit)
  IN  [i \in 1..Len(rows) |-> PostWithAuthor(rows[i])]

FeedAnswer(result, writes, queried) ==
  Listing(DefaultSkip, DefaultLimit, "desc", "None", NoQ, 0, result,
          {POSTS_CACHE_KEY}, writes, queried)

\* list_posts, default anonymous request, up to the answer of cache.get
ReadCache(i) ==
  LET cached == RedisCache_get(client, redis, POSTS_CACHE_KEY, now)
  IN  /\ client = "connected"
      /\ tasks.r[i].pc = "idle"
      /\ UNCHANGED <<users, now, client, revocations, issued, posts, comments,
                     redis>>
      /\ IF cached # NoValue
         THEN /\ listing' = FeedAnswer(cached.items, {}, {})
              /\ resp' = Response("list_posts", 200, "", NoCredentials,
                                  NoToken, NoToken)
              /\ tasks' = [tasks EXCEPT !.r[i] = [pc |-> "idle", ops |-> <<"get">>]]
         ELSE /\ UNCHANGED <<listing, resp>>
              /\ tasks' = [tasks EXCEPT !.r[i] = [pc |-> "query", ops |-> <<"get">>]]

\* ... the query on the posts table
ReadQuery(i) ==
  /\ tasks.r[i].pc = "query"
  /\ tasks' = [tasks EXCEPT !.r[i] =
                 [pc |-> "set", ops |-> <<"get", "query">>, data |-> DefaultFeedQuery]]
  /\ UNCHANGED <<users, now, client, revocations, issued, posts, comments, redis,
                 listing, resp>>

\* ... cache.set(POSTS_CACHE_KEY, data, ttl=300) and the response
ReadStore(i) ==
  LET data == tasks.r[i].data
  IN  /\ tasks.r[i].pc = "set"
      /\ redis' = RedisCache_set(client, redis, POSTS_CACHE_KEY, [items |-> data],
                                 CACHE_TTL, now)
      /\ listing' = FeedAnswer(data, {POSTS_CACHE_KEY}, {"posts"})
      /\ resp' = Response("list_posts", 200, "", NoCredentials, NoToken, NoToken)
      /\ tasks' = [tasks EXCEPT !.r[i] =
                     [pc |-> "idle", ops |-> <<"get", "query", "set">>]]
      /\ UNCHANGED <<users, now, client, revocations, issued, posts, comments>>

RaceCommit ==
  \E req \in WriteRequests, db_ok \in BOOLEAN :
    /\ req.op = "create_post" => posts.serial < MaxPosts
    /\ CommitStep(req, db_ok)

RaceRead == \E i \in ReaderIds : ReadCache(i) \/ ReadQuery(i) \/ ReadStore(i)

RaceNext == lifespan \/ SignUp \/ RaceCommit \/ InvalidateStep \/ RaceRead

RaceSpec == Init /\ [][RaceNext]_vars

(***************************************************************************)
(* Cache outage.  client = "unreachable": the RedisCache client exists but *)
(* the Redis server does not answer, so "await self._client.get(key)"      *)
(* raises redis.exceptions.ConnectionError; RedisCache.get (cache.py       *)
(* 26-32) and the list handlers have no try/except around it, and the      *)
(* exception reaches unhandled_exception_handler.  The write routes are    *)
(* run while the server answers.                                           *)
(***************************************************************************)
Outage ==
  /\ client = "connected"
  /\ client' = "unreachable"
  /\ UNCHANGED <<users, redis, now, resp, revocations, posts, listing, issued,
                 comments, tasks>>

Recovery ==
  /\ client = "unreachable"
  /\ client' = "connected"
  /\ UNCHANGED <<users, redis, now, resp, revocations, posts, listing, issued,
                 comments, tasks>>

\* list_posts while the server does not answer: the first cache.get raises;
\* a request that uses neither cache key is served from the posts table
list_posts_unreachable(skip, limit, sort, is_published, q, credentials) ==
  LET current_user == get_current_user_optional(credentials, now)
      user == current_user.user
      use_cache == /\ skip = 0 /\ limit = 10 /\ sort = "desc"
                   /\ is_published = "None" /\ user = 0 /\ q = NoQ
      use_search_cache == /\ Truthy(q) /\ skip = 0 /\ limit = 10
                          /\ sort = "desc" /\ user = 0
      Keep(p) == /\ VisibilityFilter(p, is_published, user)
                 /\ Truthy(q) => (ilike(p.title, q) \/ ilike(p.content, q))
      rows == OffsetLimit(OrderBy(SelectSeq(posts.rows, Keep), sort), skip, limit)
      data == [i \in 1..Len(rows) |-> PostWithAuthor(rows[i])]
      users_read == IF current_user.queried THEN {"users"} ELSE {}
  IN  /\ client = "unreachable"
      /\ UNCHANGED <<users, now, client, revocations, posts, issued, comments,
                     tasks, redis>>
      /\ IF use_search_cache \/ use_cache
         THEN /\ resp' = Response("list_posts", 500, "Internal server error",
                                  credentials, NoToken, NoToken)
              /\ listing' = NoListing
         ELSE /\ resp' = Response("list_posts", 200, "", credentials,
                                  NoToken, NoToken)
              /\ listing' =
                   IF Truthy(q) /\ TooShort(q)
                   THEN Listing(skip, limit, sort, is_published, q, user, <<>>,
                                {}, {}, users_read)
                   ELSE Listing(skip, limit, sort, is_published, q, user, data,
                                {}, {}, users_read \cup {"posts"})

\* list_comments while the server does not answer
list_comments_unreachable(post_id, skip, limit, sort) ==
  LET use_cache == skip = 0 /\ limit = 50
      sorted == OrderBy(list_comments_for_post(post_id), sort)
      comments_slice == OffsetLimit(sorted, skip, limit)
      data == [i \in 1..Len(comments_slice) |-> CommentWithAuthor(comments_slice[i])]
  IN  /\ client = "unreachable"
      /\ UNCHANGED <<users, now, client, revocations, posts, issued, comments,
                     tasks, redis>>
      /\ IF get_post_by_id(post_id) = {}
         THEN /\ resp' = CommentResponse("list_comments", 404, "Post not found",
                                         NoCredentials, post_id)
              /\ listing' = NoListing
         ELSE IF use_cache
         THEN /\ resp' = CommentResponse("list_comments", 500,
                                         "Internal server error", NoCredentials,
                                         post_id)
              /\ listing' = NoListing
         ELSE /\ resp' = CommentResponse("list_comments", 200, "", NoCredentials,
                                         post_id)
              /\ listing' = CommentListing(post_id, skip, limit, sort, data, {}, {})

OutageListRequests ==
  { r \in [ skip : Skips, limit : {DefaultLimit}, sort : {"desc"},
            is_published : {"None"}, q : {NoQ, <<"F", "O", "O">>},
            credentials : Readers ] : TRUE }

OutageListPosts ==
  \E r \in OutageListRequests :
    list_posts_unreachable(r.skip, r.limit, r.sort, r.is_published, r.q,
                           r.credentials)

OutageListComments ==
  \E post_id \in 1..MaxPosts, w \in CommentWindows, sort \in Sorts :
    list_comments_unreachable(post_id, w.skip, w.limit, sort)

OutageNext ==
  \/ lifespan \/ SignUp \/ CreatePost \/ FeedOrSearch \/ ListComments
  \/ Outage \/ Recovery \/ OutageListPosts \/ OutageListComments

OutageSpec == Init /\ [][OutageNext]_vars

(***************************************************************************)
(* Token lifetime: create_access_token and decode_token applied over a     *)
(* clock that runs past the configured access window.                      *)
(***************************************************************************)
TokenDeltas == {NoDelta, 0, TickStep}

\* create_access_token(data={"sub": str(user_id)}, expires_delta)
IssueAccess ==
  \E u \in UserIds, d \in TokenDeltas :
    /\ issued' = [ token |-> create_access_token(u, d, now), sub |-> u,
                   at |-> now, expires_delta |-> d ]
    /\ resp' = Response("issue", 0, "", NoToken,
                        create_access_token(u, d, now), NoToken)
    /\ UNCHANGED <<users, redis, now, client, revocations, posts, listing, comments, tasks>>

Elapse ==
  /\ now + TickStep <= MaxClock
  /\ now' = now + TickStep
  /\ resp' = Response("tick", 0, "", NoToken, NoToken, NoToken)
  /\ UNCHANGED <<users, redis, client, revocations, posts, listing, issued, comments, tasks>>

\* decode_token(token) on the token issued last
DecodeIssued ==
  /\ issued # NoIssued
  /\ resp' = Response("decode", 0, "", decode_token(issued.token, now),
                      NoToken, NoToken)
  /\ UNCHANGED <<users, redis, now, client, revocations, posts, listing, issued, comments, tasks>>

TokenNext == IssueAccess \/ Elapse \/ DecodeIssued

TokenSpec == Init /\ [][TokenNext]_vars

(***************************************************************************)
(* Properties                                                              *)
(***************************************************************************)
\* what the claims call "the jti is present in the refresh-token store"
JtiInStore(r, jti, t) ==
  <<"refresh", jti>> \in DOMAIN r /\ r[<<"refresh", jti>>].expire > t

Verifies(token) == token.sig
Unexpired(token, t) == token.exp > t
WellFormedRefresh(token) ==
  token.token_type = "refresh" /\ token.jti # 0 /\ token.sub # 0

EmailTaken(us, email) == \E i \in 1..Len(us) : us[i].email = email
UsernameTaken(us, username) == \E i \in 1..Len(us) : us[i].username = username
PolicyValid(password) ==
  /\ Len(password) >= 8
  /\ \E i \in 1..Len(password) : password[i] \in Letters
  /\ \E i \in 1..Len(password) : password[i] \in Digits
CorrectCredentials(us, email, password) ==
  \E i \in 1..Len(us) : us[i].email = email /\ us[i].hashed_password.of = password

C2_RegisterSucceeds ==
  [][ resp'.op = "register" =>
      \A e \in Emails, u \in Usernames, p \in Passwords :
        ( /\ ~ EmailTaken(users, e)
          /\ ~ UsernameTaken(users, u)
          /\ PolicyValid(p)
          /\ register_user(e, u, p) )
        => ( /\ resp'.status = 201
             /\ Len(users') = Len(users) + 1
             /\ resp'.access_token.token_type = "access"
             /\ resp'.access_token.sub = Len(users')
             /\ resp'.refresh_token.token_type = "refresh" ) ]_vars

\* C3: login with the correct password of an existing user returns a token
\* pair whose refresh jti is in the store when the call returns, and a
\* refresh request with the returned token made next succeeds.
C3_LoginStoresJti ==
  [][ /\ resp'.op = "login" =>
         \A e \in Emails, p \in Passwords :
           ( CorrectCredentials(users, e, p) /\ login_user(e, p) )
           => ( /\ resp'.status = 200
                /\ resp'.refresh_token.token_type = "refresh"
                /\ JtiInStore(redis', resp'.refresh_token.jti, now') )
      /\ ( ( /\ resp.op = "login" /\ resp.status = 200
             /\ resp'.op = "refresh"
             /\ refresh_token_endpoint(resp.refresh_token) )
           => resp'.status = 200 ) ]_vars

\* C4: the jti of the refresh token a register or login request issues is
\* active when the request returns, and the jti of the token a logout request
\* was given is inactive when that request returns.
C4_ActiveAfterIssueInactiveAfterRevoke ==
  [][ /\ resp'.op \in {"register", "login"} =>
         \A e \in Emails, u \in Usernames, p \in Passwords :
           ( \/ /\ ~ EmailTaken(users, e) /\ ~ UsernameTaken(users, u)
                /\ register_user(e, u, p)
             \/ /\ CorrectCredentials(users, e, p)
                /\ login_user(e, p) )
           => /\ resp'.refresh_token.jti # 0
              /\ JtiInStore(redis', resp'.refresh_token.jti, now')
      /\ resp'.op = "logout" =>
         \A t \in Tokens :
           ( logout(t) /\ resp'.status = 204 )
           => ~ JtiInStore(redis', t.jti, now') ]_vars

\* C5: a jti that has been revoked is never active again, and every refresh
\* request with a token carrying it is refused, expired or not.
C5_RevokedStaysInactive ==
  /\ \A j \in Jtis : revocations[j] > 0 => ~ JtiInStore(redis, j, now)
  /\ ( /\ resp.op = "refresh"
       /\ resp.token.jti \in Jtis
       /\ revocations[resp.token.jti] > 0 )
     => resp.status # 200

\* users have registered, a jti has been revoked, and a refresh request with
\* a still unexpired token carrying that jti has been refused at a later time
C5_Witness ==
  /\ Len(users) > 0
  /\ resp.op = "refresh"
  /\ Verifies(resp.token) /\ Unexpired(resp.token, now)
  /\ WellFormedRefresh(resp.token)
  /\ resp.token.sub <= Len(users)
  /\ revocations[resp.token.jti] > 0
  /\ resp.status = 401
  /\ now > 0

\* C6: logout with a decodable refresh-type token returns success whatever
\* the state of its jti, and revoking the jti once more afterwards leaves the
\* store as it is.
C6_LogoutIdempotent ==
  [][ resp'.op = "logout" =>
      \A t \in Tokens :
        ( /\ Verifies(t) /\ Unexpired(t, now) /\ WellFormedRefresh(t)
          /\ logout(t) )
        => ( /\ resp'.status = 204
             /\ ~ JtiInStore(redis', t.jti, now')
             /\ [k \in DOMAIN redis' \ {<<"refresh", t.jti>>} |-> redis'[k]] = redis' ) ]_vars

\* a logout of a jti that had been revoked before has returned success
C6_Witness ==
  /\ resp.op = "logout"
  /\ resp.status = 204
  /\ revocations[resp.token.jti] = 2

\* C8: a refresh request is answered "revoked" exactly when the token is
\* structurally valid and the store reports its jti as not active, and is
\* answered with the generic "invalid" when the signature does not verify or
\* the token is expired.
C8_RevokedVersusInvalid ==
  resp.op = "refresh" =>
    /\ ( resp.detail = "Refresh token has been revoked" <=>
           /\ Verifies(resp.token) /\ Unexpired(resp.token, now)
           /\ WellFormedRefresh(resp.token)
           /\ ~ JtiInStore(redis, resp.token.jti, now) )
    /\ ( (~ Verifies(resp.token) \/ ~ Unexpired(resp.token, now))
           => resp.detail = "Invalid or expired refresh token" )

\* a refresh request with a token whose jti was revoked by a logout has been
\* answered "revoked"
C8_Witness ==
  /\ resp.op = "refresh"
  /\ resp.detail = "Refresh token has been revoked"
  /\ resp.status = 401
  /\ revocations[resp.token.jti] = 1

\* the step answered 400 with a duplicate detail, returned no tokens and left
\* the users table and the store as they were
DuplicateRefused ==
  /\ resp'.status = 400
  /\ resp'.detail \in {"Email already registered", "Username already registered"}
  /\ resp'.access_token = NoToken /\ resp'.refresh_token = NoToken
  /\ users' = users
  /\ redis' = redis

\* C9: a register request whose email or username an existing user has is
\* refused as a duplicate and creates no User record and no store entry:
\* every register step is such a refusal, or else it handles no request
\* whose email or username is taken.
C9_DuplicateNoSideEffects ==
  [][ resp'.op = "register" =>
      \/ DuplicateRefused
      \/ \A e \in Emails, u \in Usernames, p \in Passwords :
           ~ ( /\ (EmailTaken(users, e) \/ UsernameTaken(users, u))
               /\ register_user(e, u, p) ) ]_vars

\* a register request was refused for its username while an email is still
\* unused: the username check, not the email check, refused it
C9_Witness ==
  /\ resp.op = "register"
  /\ resp.status = 400
  /\ resp.detail = "Username already registered"
  /\ \E e \in Emails : ~ EmailTaken(users, e)

\* C10: a register request whose password is shorter than 8 characters, or
\* has no letter, or has no digit, is refused with the policy's validation
\* error, and creates no User record and no store entry.
C10_WeakPasswordRejected ==
  [][ resp'.op = "register" =>
      \A e \in Emails, u \in Usernames, p \in Passwords :
        ( ~ PolicyValid(p) /\ register_user(e, u, p) )
        => ( /\ resp'.status = 400
             /\ resp'.detail \in { "Password must be at least 8 characters",
                                   "Password must contain at least one letter",
                                   "Password must contain at least one digit" }
             /\ resp'.access_token = NoToken /\ resp'.refresh_token = NoToken
             /\ users' = users
             /\ redis' = redis ) ]_vars

\* the one failure outcome of login: 401 with the generic detail, no token,
\* the users table and the store as they were
LoginRefused ==
  /\ resp' = Response("login", 401, "Incorrect username or password",
                      NoToken, NoToken, NoToken)
  /\ users' = users
  /\ redis' = redis

\* C11: a login with an unknown email and a login with a known email and a
\* wrong password get one and the same failure outcome, mint no token and
\* leave the refresh-token store unchanged: every login step is that
\* refusal, or else it handles no request with incorrect credentials.
C11_LoginFailureUniform ==
  [][ resp'.op = "login" =>
      \/ LoginRefused
      \/ \A e \in Emails, p \in Passwords :
           ~ ( ~ CorrectCredentials(users, e, p) /\ login_user(e, p) ) ]_vars

\* a login was refused while every email of the pool is registered: the
\* refusal was for a wrong password, and it is the generic 401
C11_Witness ==
  /\ resp.op = "login"
  /\ resp.status = 401
  /\ resp.detail = "Incorrect username or password"
  /\ \A e \in Emails : EmailTaken(users, e)

\* the access window of the token issued last
IssuedWindow ==
  IF issued.expires_delta \in {NoDelta, 0} THEN ACCESS_TOKEN_EXPIRE_MINUTES
  ELSE issued.expires_delta

\* C20: an access token minted for a user decodes, at any time before its
\* expiry, to claims with type "access" and that user's id as subject, and
\* at any time after the expiry has elapsed to the invalid outcome.
C20_AccessTokenLifetime ==
  resp.op = "decode" =>
    /\ now < issued.at + IssuedWindow
         => ( resp.token.token_type = "access" /\ resp.token.sub = issued.sub )
    /\ now > issued.at + IssuedWindow => resp.token = NoToken

\* a token minted with the configured window was decoded after the window
\* had elapsed, and decoding gave the invalid outcome
C20_Witness ==
  /\ resp.op = "decode"
  /\ issued.expires_delta = NoDelta
  /\ now > issued.at + ACCESS_TOKEN_EXPIRE_MINUTES
  /\ resp.token = NoToken

(***************************************************************************)
(* Properties of the posts routes                                          *)
(***************************************************************************)
Listed == listing.op = "list_posts"
Anonymous == listing.caller = 0
DefaultPage ==
  listing.skip = DefaultSkip /\ listing.limit = DefaultLimit /\ listing.sort = "desc"
\* the canonical shape: default page, no filter, no search, anonymous
Canonical ==
  DefaultPage /\ listing.is_published = "None" /\ listing.q = NoQ /\ Anonymous

\* the row of the posts table an item of a listing stands for
RowsOf(item) == {i \in 1..Len(posts.rows) : posts.rows[i].id = item.id}
PublishedInStore(item) == \E i \in RowsOf(item) : posts.rows[i].is_published = TRUE

\* C12: every post of a listing returned to an anonymous caller is published
\* in the posts table when the request is served, on cache hits as on misses.
C12_AnonymousSeesPublishedOnly ==
  (Listed /\ Anonymous) =>
    \A k \in 1..Len(listing.result) : PublishedInStore(listing.result[k])

\* the published posts in commit order
PublishedRows == SelectSeq(posts.rows, LAMBDA p : p.is_published = TRUE)
\* the canonical listing of the table as it is: the newest published posts
\* first, at most a page of them
ReflectsStore ==
  /\ Len(listing.result) =
       (IF Len(PublishedRows) < DefaultLimit THEN Len(PublishedRows) ELSE DefaultLimit)
  /\ \A k \in 1..Len(listing.result) :
       listing.result[k] = PostWithAuthor(PublishedRows[Len(PublishedRows) + 1 - k])

\* C13: the default anonymous listing that follows a successful create,
\* update or delete of a post reflects the mutation: it is the listing of the
\* table as the mutation left it, not the list cached before.
C13_FreshAfterWrite ==
  (Listed /\ Canonical /\ listing.after_write) => ReflectsStore

\* a default anonymous listing followed a successful write and shows a post
C13_Witness ==
  /\ Listed /\ Canonical /\ listing.after_write
  /\ Len(listing.result) > 0
  /\ "posts" \in listing.queried

\* C14: a listing is written to the cache only for the canonical shape, and a
\* request of any other shape neither reads nor writes the cache.
C14_OnlyCanonicalCached ==
  Listed =>
    /\ listing.cache_writes # {} => Canonical
    /\ ~ Canonical => (listing.cache_reads = {} /\ listing.cache_writes = {})

\* C15: a listing with is_published=false returns only published posts to an
\* anonymous caller, and to an authenticated caller only posts that are
\* unpublished and authored by that caller.
C15_UnpublishedFilter ==
  (Listed /\ listing.is_published = "false") =>
    \A k \in 1..Len(listing.result) :
      IF Anonymous THEN PublishedInStore(listing.result[k])
      ELSE \E i \in RowsOf(listing.result[k]) :
             /\ posts.rows[i].is_published = FALSE
             /\ posts.rows[i].user_id = listing.caller

\* the rows an authenticated caller may see that pass the search
Eligible ==
  { i \in 1..Len(posts.rows) :
      /\ posts.rows[i].is_published = TRUE \/ posts.rows[i].user_id = listing.caller
      /\ Truthy(listing.q) =>
           /\ Len(listing.q) >= 3
           /\ \/ Contains(LowerText(posts.rows[i].title), LowerText(listing.q))
              \/ Contains(LowerText(posts.rows[i].content), LowerText(listing.q)) }
\* how many eligible rows come before row i in the order asked for
Rank(i) ==
  Cardinality({ j \in Eligible :
                  IF listing.sort = "asc"
                  THEN posts.rows[j].created_at < posts.rows[i].created_at
                  ELSE posts.rows[j].created_at > posts.rows[i].created_at })
Window ==
  {i \in Eligible : Rank(i) >= listing.skip /\ Rank(i) < listing.skip + listing.limit}

\* C16: with no publication-state filter an authenticated caller gets exactly
\* the posts that are published or their own, restricted by search, sort and
\* page window, and never an unpublished post of another user.
C16_AuthenticatedVisibility ==
  (Listed /\ listing.is_published = "None" /\ ~ Anonymous) =>
    /\ Len(listing.result) = Cardinality(Window)
    /\ \A i \in Window :
         listing.result[Rank(i) - listing.skip + 1] = PostWithAuthor(posts.rows[i])
    /\ \A k \in 1..Len(listing.result) :
         listing.result[k].is_published = TRUE
           \/ listing.result[k].user_id = listing.caller

\* an authenticated caller listed without a filter while the table held
\* another user's unpublished post, and did not get it
C16_Witness ==
  /\ Listed /\ listing.is_published = "None" /\ ~ Anonymous
  /\ listing.skip = DefaultSkip /\ ~ Truthy(listing.q)
  /\ \E i \in 1..Len(posts.rows) :
       /\ posts.rows[i].is_published = FALSE
       /\ posts.rows[i].user_id # listing.caller
  /\ listing.result = <<>>

\* the page holds the ten posts created last, newest first
TenMostRecent ==
  /\ Len(listing.result) = DefaultLimit
  /\ \A k \in 1..DefaultLimit :
       listing.result[k].id = posts.rows[Len(posts.rows) + 1 - k].id

\* C17 as claimed: after 11 posts have been created with default settings
\* (is_published left false), a default listing call returns exactly the 10
\* most recently created, by descending creation time.
C17_DefaultFeedAfterEleven ==
  ( /\ Listed /\ Canonical
    /\ Len(posts.rows) >= DefaultLimit + 1
    /\ \A i \in 1..Len(posts.rows) : posts.rows[i].is_published = FALSE )
  => TenMostRecent

\* C17 as amended: after 11 posts have been created published, a default
\* listing call returns exactly the 10 most recently created, by descending
\* creation time.
C17_PublishedFeedAfterEleven ==
  ( /\ Listed /\ Canonical
    /\ Len(posts.rows) >= DefaultLimit + 1
    /\ \A i \in 1..Len(posts.rows) : posts.rows[i].is_published = TRUE )
  => TenMostRecent

\* eleven published posts exist and the default page was listed
C17_Witness ==
  /\ Listed /\ Canonical
  /\ Len(posts.rows) = DefaultLimit + 1
  /\ \A i \in 1..Len(posts.rows) : posts.rows[i].is_published = TRUE
  /\ Len(listing.result) = DefaultLimit

\* C18 as claimed: a listing whose search term has fewer than 3 characters
\* returns an empty list without a query against the store and without a
\* cache write.
C18_ShortSearchEmpty ==
  (Listed /\ listing.q # NoQ /\ Len(listing.q) < 3) =>
    /\ listing.result = <<>>
    /\ listing.queried = {}
    /\ listing.cache_writes = {}

\* C18 as amended: a listing whose search term has 1 or 2 characters returns
\* an empty list without running the posts query and without a cache write.
C18_ShortSearchNoPostsQuery ==
  (Listed /\ listing.q # NoQ /\ Len(listing.q) \in {1, 2}) =>
    /\ listing.result = <<>>
    /\ "posts" \notin listing.queried
    /\ listing.cache_writes = {}

\* a two-character search was answered with the empty list while the table
\* holds a published post
C18_Witness ==
  /\ Listed /\ Len(listing.q) = 2 /\ listing.q # NoQ
  /\ listing.result = <<>>
  /\ \E i \in 1..Len(posts.rows) : posts.rows[i].is_published = TRUE

\* one of the checks of resolve_required fails for the credentials presented
ChecksFail(credentials) ==
  \/ credentials = NoCredentials
  \/ ~ credentials.sig
  \/ credentials.exp <= now
  \/ credentials.sub = 0
  \/ credentials.sub > Len(users)

\* C19: the required dependency fails with the uniform 401 outcome, and with
\* no other error, when the token is missing, does not decode, is expired,
\* has no subject or names no existing user; a user is resolved only when
\* all these checks pass.
C19_RequiredUniform401 ==
  resp.op \in WriteOps =>
    /\ ChecksFail(resp.token) => resp.status = 401
    /\ resp.status \in {200, 201, 204, 403, 404} => ~ ChecksFail(resp.token)

(***************************************************************************)
(* Properties of registration failures and of bearer resolution            *)
(***************************************************************************)
\* C21: a register request that collides on the email and one that collides
\* on the username get the same answer: two register requests refused one
\* after the other (the users table is the same for both) carry the same
\* status and the same detail.
C21_CollisionIndistinguishable ==
  [][ ( /\ resp.op = "register" /\ resp.status = 400
        /\ resp'.op = "register" /\ resp'.status = 400 )
      => resp' = resp ]_vars

\* C22: a register request that does not end in a token pair (minting or
\* storing the refresh jti failed) leaves no new User record behind.
C22_NoOrphanedUser ==
  [][ (resp'.op = "register" /\ resp'.status # 201) => users' = users ]_vars

\* C25: a write route resolves a caller (the request gets past the
\* required dependency) only for a bearer token whose token_type is
\* "access"; a refresh token never authenticates.
C25_OnlyAccessTokensAuthenticate ==
  (resp.op \in WriteOps /\ resp.status \in {200, 201, 204, 403, 404})
    => resp.token.token_type = "access"

\* C26: acceptance of an access token is stateless: in every reachable
\* state, whatever was logged out before, every correctly signed, unexpired
\* access token of an existing user resolves to that user, and a write
\* request presenting it is served.
C26_AccessTokenStateless ==
  /\ \A t \in AccessTokens :
       (Unexpired(t, now) /\ UserById(t.sub) # {}) =>
         /\ get_current_user(t, now).status = 200
         /\ get_current_user(t, now).user = t.sub
  /\ ( /\ resp.op = "create_post" /\ resp.token \in AccessTokens
       /\ Unexpired(resp.token, now) /\ UserById(resp.token.sub) # {} )
     => resp.status = 201

\* a post was created under an access token after a logout revoked a
\* refresh token, and after the clock passed the expiry of other tokens
C26_Witness ==
  /\ resp.op = "create_post" /\ resp.status = 201
  /\ \E j \in Jtis : revocations[j] > 0
  /\ now > 0

(***************************************************************************)
(* Properties of the comments routes and of the write routes' refusals     *)
(***************************************************************************)
EditOps == {"update_post", "delete_post", "update_comment", "delete_comment"}
Succeeded(r) == r.status \in {200, 201, 204}
\* the key space r with the given keys removed and nothing else touched
Without(r, keys) == [k \in DOMAIN r \ keys |-> r[k]]
CommentsKeysOf(post_id) == {CommentsKey(post_id, sort) : sort \in Sorts}

C28_CommentMutationReflected ==
  [][ ( /\ resp.op = "create_comment"
        /\ get_current_user(resp.token, now).status = 200
        /\ PostById(resp.post_id) # {}
        /\ listing'.op = "list_comments"
        /\ listing'.post_id = resp.post_id
        /\ listing'.skip = 0 /\ listing'.limit = CommentsDefaultLimit )
      => \E i \in 1..Len(listing'.result) :
           listing'.result[i].user_id = get_current_user(resp.token, now).user ]_vars

\* what an update or delete answers for the entity found (a set of row
\* indexes), its owner and the caller
EditOutcome(found, owner, caller) ==
  IF found = {} THEN resp'.status = 404
  ELSE IF owner # caller THEN resp'.status = 403
  ELSE Succeeded(resp')
PostOwner(post_id) == posts.rows[CHOOSE i \in PostById(post_id) : TRUE].user_id
CommentOwner(post_id, comment_id) ==
  comments.rows[CHOOSE i \in get_comment_for_post(post_id, comment_id) : TRUE].user_id

\* C29: an update or delete of a post or comment by an authenticated caller
\* answers 404 when the id names no entity, 403 when the entity exists and
\* the caller is not its author, and succeeds only for the author; a request
\* that does not succeed leaves the tables and the cache as they were.
C29_NotFoundThenForbidden ==
  [][ resp'.op \in EditOps =>
      /\ ~ Succeeded(resp')
           => (posts' = posts /\ comments' = comments /\ redis' = redis)
      /\ \A c \in BearerTokens \cap {resp'.token}, post_id \in 1..MaxPosts :
           get_current_user(c, now).status = 200 =>
           /\ ( \/ /\ resp'.op = "update_post"
                   /\ \E b \in BOOLEAN : update_post(c, post_id, [is_published |-> b])
                \/ /\ resp'.op = "delete_post"
                   /\ delete_post(c, post_id) )
                => EditOutcome(PostById(post_id), PostOwner(post_id), c.sub)
           /\ \A comment_id \in CommentIds :
                ( \/ /\ resp'.op = "update_comment"
                     /\ update_comment(c, post_id, comment_id, CommentContent)
                  \/ /\ resp'.op = "delete_comment"
                     /\ delete_comment(c, post_id, comment_id) )
                  => EditOutcome(get_comment_for_post(post_id, comment_id),
                                 CommentOwner(post_id, comment_id), c.sub) ]_vars

\* a visitor's update or delete of the other visitor's post was refused
C29_Witness ==
  /\ resp.op \in {"update_post", "delete_post"}
  /\ resp.status = 403
  /\ Len(posts.rows) > 0

(***************************************************************************)
(* Properties of concurrent requests                                       *)
(***************************************************************************)
\* C23: whatever the interleaving of a write to the posts table with
\* default anonymous listings, once the write's invalidation has completed
\* (no write is between its commit and its cache.delete) the canonical cache
\* entry does not hold a listing of the table as it was before the commit:
\* the entry is absent or equals the listing of the table as it is.
C23_NoStaleRepopulation ==
  tasks.w.pc # "invalidate" =>
    LET cached == RedisCache_get(client, redis, POSTS_CACHE_KEY, now)
    IN  cached = NoValue \/ cached.items = DefaultFeedQuery

\* C24: in every write request (post or comment) the cache keys are deleted
\* only after the request's commit went through: a step that takes a key out
\* of the cache belongs to a request whose only store operation so far is
\* its commit; a request that is refused (404, 403, 401) or whose commit
\* fails deletes nothing.
C24_InvalidationAfterCommit ==
  [][ /\ (\E k \in DOMAIN redis : k \notin DOMAIN redis')
           => (tasks.w.pc = "invalidate" /\ tasks.w.ops = <<"commit">>)
      /\ tasks'.w.pc = "invalidate" => tasks'.w.ops = <<"commit">>
      /\ \A i \in 1..Len(tasks'.w.ops) :
           tasks'.w.ops[i] = "delete" =>
             \E j \in 1..(i - 1) : tasks'.w.ops[j] = "commit"
      /\ ( /\ resp' # resp
           /\ resp'.op \in WriteOps \cup CommentWriteOps
           /\ ~ Succeeded(resp') )
           => ( /\ redis' = redis
                /\ \A i \in 1..Len(tasks'.w.ops) : tasks'.w.ops[i] # "delete" ) ]_vars

\* a write to the posts table committed and then took the canonical key out
\* of the cache
C24_Witness ==
  /\ tasks.w.ops = <<"commit", "delete">>
  /\ Succeeded(resp) /\ resp.op \in WriteOps
  /\ POSTS_CACHE_KEY \notin DOMAIN redis
  /\ Len(posts.rows) > 0

\* C30: a listing request served while the cache backend fails is answered
\* as on a cache miss: it is not refused with an error but returns the
\* listing (404 for the comments of a post that does not exist aside).
C30_CacheFailureIsMiss ==
  ( /\ client = "unreachable"
    /\ resp.op \in {"list_posts", "list_comments"}
    /\ resp.status # 404 )
    => (resp.status = 200 /\ listing.op = resp.op)

(***************************************************************************)
(* Expiry of listing entries: the listing requests of the routes over a    *)
(* clock that runs past the time to live of every entry they write.  The   *)
(* clock of the Redis server advances whatever the handlers do, which is   *)
(* the weak fairness of TtlElapse; requests are made at the clients' will and *)
(* carry no fairness.  A listing is requested only while the clock of the  *)
(* model can still pass the expiry of the entry it may write.              *)
(***************************************************************************)
TtlHorizon == TickStep + TickStep

TtlElapse ==
  /\ now + TickStep <= TtlHorizon
  /\ now' = now + TickStep
  /\ resp' = Response("tick", 0, "", NoToken, NoToken, NoToken)
  /\ UNCHANGED <<users, redis, client, revocations, posts, listing, issued, comments, tasks>>

CanOutlive(t) ==
  \E k \in 1..TtlHorizon :
    k * TickStep >= CACHE_TTL /\ t + k * TickStep <= TtlHorizon

TtlCreate ==
  /\ posts.serial < MaxPosts
  /\ \E c \in Readers \ {NoCredentials}, b \in BOOLEAN :
       create_post(c, PostTitle, PostContent, b)

TtlListPosts == CanOutlive(now) /\ FeedOrSearch

TtlListComments ==
  /\ CanOutlive(now)
  /\ \E post_id \in 1..MaxPosts, sort \in Sorts :
       list_comments(post_id, 0, CommentsDefaultLimit, sort)

TtlNext ==
  \/ lifespan \/ FeedSignUp \/ TtlCreate \/ TtlListPosts \/ TtlListComments
  \/ TtlElapse

TtlSpec == Init /\ [][TtlNext]_vars /\ WF_vars(TtlElapse)

\* the keys the listing routes of TtlSpec write
ListingKeys ==
  {POSTS_CACHE_KEY, SearchKey(<<"F", "O", "O">>)}
    \cup UNION {CommentsKeysOf(post_id) : post_id \in 1..MaxPosts}

\* what a listing of the posts table computed now would store under key
FreshItems(key) ==
  LET q == IF key = POSTS_CACHE_KEY THEN NoQ ELSE <<"F", "O", "O">>
      Keep(p) == /\ VisibilityFilter(p, "None", 0)
                 /\ Truthy(q) => (ilike(p.title, q) \/ ilike(p.content, q))
      rows == OffsetLimit(OrderBy(SelectSeq(posts.rows, Keep), "desc"),
                          DefaultSkip, DefaultLimit)
  IN  [i \in 1..Len(rows) |-> PostWithAuthor(rows[i])]

\* C31: every listing entry in the cache expires at most CACHE_TTL after the
\* moment it was written; every live listing entry, stale or not, therefore
\* eventually stops being served; and a listing requested when none of the
\* keys it reads is live is computed from the posts table (from the comments
\* table for a comment listing) and written back.
C31_StaleEntryExpires ==
  /\ [](\A key \in DOMAIN redis : redis[key].expire <= now + CACHE_TTL)
  /\ \A key \in ListingKeys :
       Live(redis, key, now) ~> ~ Live(redis, key, now)
  /\ [][ ( /\ resp'.op \in {"list_posts", "list_comments"}
           /\ resp'.status = 200
           /\ \A key \in listing'.cache_reads : ~ Live(redis, key, now) )
         => ( /\ listing'.cache_writes = listing'.cache_reads
              /\ \A key \in listing'.cache_writes :
                   /\ Live(redis', key, now')
                   /\ redis'[key].value.items = listing'.result
              /\ resp'.op = "list_posts"
                   => /\ "posts" \in listing'.queried
                      /\ \A key \in listing'.cache_reads :
                           listing'.result = FreshItems(key) ) ]_vars

\* a search entry that no longer matches the posts table (a post was created
\* after it was stored, and searches are not invalidated) has expired and is
\* no longer served
C31_Witness ==
  LET key == SearchKey(<<"F", "O", "O">>)
  IN  /\ key \in DOMAIN redis
      /\ redis[key].value.items # FreshItems(key)
      /\ ~ Live(redis, key, now)
      /\ resp.op = "tick"

\* the logout step removes the refresh key of the presented jti and no
\* other key
LogoutRemovesOnlyItsJti ==
  [][ resp'.op = "logout" =>
        redis' = IF resp'.status = 204
                 THEN Without(redis, {RefreshKey(resp'.token.jti)})
                 ELSE redis ]_vars

RegisterCheck(i, email, username, password) ==
  LET Refuse(detail) ==
        /\ resp' = Response("register", 400, detail, NoToken, NoToken, NoToken)
        /\ tasks' = [tasks EXCEPT !.reg[i] = [pc |-> "idle", ops |-> <<"select">>]]
  IN  /\ client = "connected"
      /\ tasks.reg[i].pc = "idle"
      /\ listing' = NoListing
      /\ UNCHANGED <<users, redis, now, client, revocations, posts, issued, comments>>
      /\ IF UserByEmail(email) # {}
         THEN Refuse("Email already registered")
         ELSE IF UserByUsername(username) # {}
         THEN Refuse("Username already registered")
         ELSE /\ resp' = resp
              /\ tasks' = [tasks EXCEPT !.reg[i] =
                             [ pc |-> "insert", ops |-> <<"select">>,
                               email |-> email, username |-> username,
                               password |-> password ]]

\* db.add, db.commit and the token issuance of register_user
RegisterCommit(i) ==
  LET req == tasks.reg[i]
      db_user == [ email |-> req.email, username |-> req.username,
                   hashed_password |-> hash_password(req.password) ]
      newUsers == Append(users, db_user)
      IntegrityError == UserByEmail(req.email) # {} \/ UserByUsername(req.username) # {}
  IN  /\ client = "connected"
      /\ req.pc = "insert"
      /\ listing' = NoListing
      /\ UNCHANGED <<now, client, revocations, posts, issued, comments>>
      /\ tasks' = [tasks EXCEPT !.reg[i] =
                     [ pc |-> "idle",
                       ops |-> <<"select", IF IntegrityError THEN "IntegrityError"
                                                             ELSE "commit">> ]]
      /\ IF IntegrityError
         THEN /\ resp' = InternalServerError("register")
              /\ UNCHANGED <<users, redis>>
         ELSE IssueTokenPair("register", newUsers, Len(newUsers))

RegisterStart ==
  \E i \in RegisterIds, e \in Emails, u \in Usernames :
    RegisterCheck(i, e, u, PwValid)

RegisterFinish == \E i \in RegisterIds : RegisterCommit(i)

RegisterNext == lifespan \/ RegisterStart \/ RegisterFinish

RegisterSpec == Init /\ [][RegisterNext]_vars

\* no two rows of the users table share an email or a username
UniqueIdentities ==
  \A i, j \in 1..Len(users) :
    i # j => ( /\ users[i].email # users[j].email
               /\ users[i].username # users[j].username )

\* C33: under every interleaving of register requests no two users share an
\* email or a username, and a register request whose email or username has
\* been taken by the time it inserts is answered 400 with the duplicate
\* detail, not with an internal error.
C33_ConcurrentRegisterDuplicate ==
  /\ [] UniqueIdentities
  /\ [][ \A i \in RegisterIds :
           ( /\ tasks.reg[i].pc = "insert" /\ tasks'.reg[i].pc = "idle"
             /\ \/ EmailTaken(users, tasks.reg[i].email)
                \/ UsernameTaken(users, tasks.reg[i].username) )
           => ( /\ resp'.status = 400
                /\ resp'.detail \in {"Email already registered",
                                     "Username already registered"} ) ]_vars

\* the listing entries of the posts routes held in the cache
PostListingKeys == {key \in DOMAIN redis : key[1] \in {POSTS_CACHE_KEY[1], SEARCH_CACHE_PREFIX}}

\* C34: a post listing requested by an authenticated caller reads no cache
\* key, writes none, leaves the key space as it is and is computed from the
\* posts table; and no listing entry of the cache holds a post that was
\* unpublished when the entry was written.
C34_AuthenticatedListingBypassesCache ==
  /\ [][ ( resp'.op = "list_posts" /\ listing'.caller # 0 )
         => ( /\ listing'.cache_reads = {}
              /\ listing'.cache_writes = {}
              /\ redis' = redis
              /\ \/ "posts" \in listing'.queried
                 \/ Truthy(listing'.q) /\ TooShort(listing'.q) ) ]_vars
  /\ [](\A key \in PostListingKeys :
          \A i \in 1..Len(redis[key].value.items) :
            redis[key].value.items[i].is_published = TRUE)

\* an authenticated caller asked for the default page while the canonical
\* entry was live, and was answered from the posts table with a listing
\* that holds the caller's own unpublished post
C34_Witness ==
  /\ Listed /\ listing.caller # 0
  /\ DefaultPage /\ listing.is_published = "None" /\ listing.q = NoQ
  /\ Live(redis, POSTS_CACHE_KEY, now)
  /\ listing.cache_reads = {}
  /\ \E i \in 1..Len(listing.result) :
       /\ listing.result[i].is_published = FALSE
       /\ listing.result[i].user_id = listing.caller

(***************************************************************************)
(* The read routes that take a post id: get_post (posts.py 170-198),       *)
(* list_comments and get_comment (comments.py 74-146).  None of them       *)
(* declares a credentials dependency, so the caller is always anonymous.   *)
(***************************************************************************)
\* PostWithComments: the post with its author and its comments
PostWithComments(p) ==
  LET OfPost(c) == c.post_id = p.id
      rows == SelectSeq(comments.rows, OfPost)
  IN  [ id |-> p.id, title |-> p.title, content |-> p.content,
        is_published |-> p.is_published, user_id |-> p.user_id,
        created_at |-> p.created_at, author |-> users[p.user_id].username,
        comments |-> [i \in 1..Len(rows) |-> CommentWithAuthor(rows[i])] ]

get_post(post_id) ==
  LET found == PostById(post_id)
      post == posts.rows[CHOOSE i \in found : TRUE]
  IN  /\ client = "connected"
      /\ UNCHANGED <<users, redis, now, client, revocations, posts, issued, comments, tasks>>
      /\ IF found = {}
         THEN /\ resp' = CommentResponse("get_post", 404, "Post not found",
                                         NoCredentials, post_id)
              /\ listing' = NoListing
         ELSE /\ resp' = CommentResponse("get_post", 200, "", NoCredentials, post_id)
              /\ listing' = [ op |-> "get_post", post_id |-> post_id, caller |-> 0,
                              result |-> <<PostWithComments(post)>>,
                              cache_reads |-> {}, cache_writes |-> {} ]

get_comment(post_id, comment_id) ==
  LET found == get_comment_for_post(post_id, comment_id)
      comment == comments.rows[CHOOSE i \in found : TRUE]
  IN  /\ client = "connected"
      /\ UNCHANGED <<users, redis, now, client, revocations, posts, issued, comments, tasks>>
      /\ IF found = {}
         THEN /\ resp' = CommentResponse("get_comment", 404, "Comment not found",
                                         NoCredentials, post_id)
              /\ listing' = NoListing
         ELSE /\ resp' = CommentResponse("get_comment", 200, "", NoCredentials, post_id)
              /\ listing' = [ op |-> "get_comment", post_id |-> post_id, caller |-> 0,
                              result |-> <<CommentWithAuthor(comment)>>,
                              cache_reads |-> {}, cache_writes |-> {} ]

GetPost == \E post_id \in 1..MaxPosts : get_post(post_id)

GetComment ==
  \E post_id \in 1..MaxPosts, comment_id \in CommentIds :
    get_comment(post_id, comment_id)

ReadNext ==
  \/ lifespan \/ SignUp \/ CreatePost \/ UpdatePost \/ ListPosts \/ ListComments
  \/ GetPost \/ GetComment

ReadSpec == Init /\ [][ReadNext]_vars

\* the post of id post_id is in the posts table, unpublished, and not the
\* caller's
HiddenFrom(post_id, caller) ==
  \E i \in PostById(post_id) :
    posts.rows[i].is_published = FALSE /\ posts.rows[i].user_id # caller

\* C35: no read request returns an unpublished post, or the comments of an
\* unpublished post, to a caller who is not the post's author: not the post
\* listing, not the single-post fetch, not the comment listing, not the
\* single-comment fetch.
C35_UnpublishedHiddenFromOthers ==
  /\ listing.op \in {"list_posts", "get_post"} =>
       \A i \in 1..Len(listing.result) :
         ~ HiddenFrom(listing.result[i].id, listing.caller)
  /\ ( listing.op \in {"list_comments", "get_comment"}
       /\ Len(listing.result) > 0 ) =>
       ~ HiddenFrom(listing.post_id, 0)

(***************************************************************************)
(* The key space.  Redis keys are strings; the model keeps each key as the *)
(* tuple of the pieces its f-string joins.  KeyText renders a key the way  *)
(* the f-string does, character by character, so that two keys of the      *)
(* model that Redis would take for one key are found.                      *)
(***************************************************************************)
Chars(s) ==
  CASE s = "refresh" -> <<"r", "e", "f", "r", "e", "s", "h">>
    [] s = "posts:list:main" -> <<"p", "o", "s", "t", "s", ":", "l", "i", "s", "t", ":", "m", "a", "i", "n">>
    [] s = "posts:search:" -> <<"p", "o", "s", "t", "s", ":", "s", "e", "a", "r", "c", "h", ":">>
    [] s = "comments" -> <<"c", "o", "m", "m", "e", "n", "t", "s">>
    [] s = ":" -> <<":">>
    [] s = ":q=" -> <<":", "q", "=">>
    [] s = "q=" -> <<"q", "=">>
    [] s = ":sort=" -> <<":", "s", "o", "r", "t", "=">>
    [] s = "asc" -> <<"a", "s", "c">>
    [] s = "desc" -> <<"d", "e", "s", "c">>

DigitChars == <<"0", "1", "2", "3", "4", "5", "6", "7", "8", "9">>

\* str(n)
RECURSIVE Str(_)
Str(n) ==
  IF n < 10 THEN <<DigitChars[n + 1]>>
  ELSE Str(n \div 10) \o <<DigitChars[(n % 10) + 1]>>

\* f"{REFRESH_PREFIX}:{jti}", POSTS_CACHE_KEY, f"{SEARCH_CACHE_PREFIX}:q={q}"
\* and f"{COMMENTS_CACHE_KEY}:{post_id}:sort={sort}"
KeyText(key) ==
  CASE Len(key) = 1 -> Chars(key[1])
    [] Len(key) = 2 -> Chars(key[1]) \o Chars(":") \o Str(key[2])
    [] Len(key) = 3 -> Chars(key[1]) \o Chars(key[2]) \o key[3]
    [] Len(key) = 5 -> Chars(key[1]) \o Chars(key[2]) \o Str(key[3])
                         \o Chars(key[4]) \o Chars(key[5])

\* search terms a caller may choose, among them the text of other keys
ProbeQs ==
  { <<"F", "O", "O">>, KeyText(RefreshKey(1)), KeyText(POSTS_CACHE_KEY),
    <<":", "1">>, KeyText(CommentsKey(1, "desc")) }

RefreshKeys == {RefreshKey(jti) : jti \in Jtis}

ListingKeySpace ==
  {POSTS_CACHE_KEY} \cup {SearchKey(q) : q \in ProbeQs}
    \cup {CommentsKey(post_id, sort) : post_id \in 1..MaxPosts, sort \in Sorts}

KeyCreate ==
  /\ posts.serial < MaxPosts
  /\ \E c \in Readers \ {NoCredentials} :
       create_post(c, PostTitle, PostContent, TRUE)

KeyListComments ==
  \E post_id \in 1..MaxPosts, sort \in Sorts :
    list_comments(post_id, 0, CommentsDefaultLimit, sort)

\* logout with a token of user 1 that outlives the run: access or refresh
KeyLogout ==
  /\ \E t \in {x \in Tokens : x.sig /\ x.sub = 1 /\ x.exp = MaxTime + TickStep} :
       logout(t)
  /\ AuthRoute

KeyNext ==
  \/ lifespan \/ FeedSignUp \/ KeyCreate \/ FeedOrSearch \/ KeyListComments
  \/ KeyLogout

KeySpec == Init /\ [][KeyNext]_vars

\* the entries of r under the keys of ks
Entries(r, ks) == [key \in DOMAIN r \cap ks |-> r[key]]

\* C36: refresh-token keys and listing keys are different strings for every
\* jti, post id, sort value and search term, whatever the term; a listing or
\* invalidation step creates, overwrites and deletes no refresh-token entry;
\* and a token step (register, logout) creates and deletes no listing entry.
C36_KeySpacesDoNotInterfere ==
  /\ [](\A a \in RefreshKeys, b \in ListingKeySpace \cup (DOMAIN redis \ RefreshKeys) :
          KeyText(a) # KeyText(b))
  /\ [][ resp'.op \in {"list_posts", "list_comments", "create_post"}
         => Entries(redis', RefreshKeys) = Entries(redis, RefreshKeys) ]_vars
  /\ [][ resp'.op \in {"register", "logout"}
         => Entries(redis', DOMAIN redis' \ RefreshKeys)
              = Entries(redis, DOMAIN redis \ RefreshKeys) ]_vars

\* a logout removed its jti while listing entries of the posts and of the
\* comments routes were live, and they still are
C36_Witness ==
  /\ resp.op = "logout" /\ resp.status = 204
  /\ Live(redis, POSTS_CACHE_KEY, now)
  /\ Live(redis, SearchKey(<<"F", "O", "O">>), now)
  /\ \E sort \in Sorts : Live(redis, CommentsKey(1, sort), now)

(***************************************************************************)
(* app/services/post_services.py: list_posts_with_filters, the listing of  *)
(* the service layer.  No route calls it; it is run here behind the        *)
(* signature of the route (the optional dependency resolves the caller,    *)
(* the answer is the route's response), next to list_posts, on the same    *)
(* posts table and the same key space.                                     *)
(***************************************************************************)
\* f"{SEARCH_CACHE_PREFIX}q={q}"
ServiceSearchKey(q) == <<SEARCH_CACHE_PREFIX, "q=", q>>

list_posts_with_filters(skip, limit, sort, is_published, q, current_user, credentials) ==
  LET user == current_user.user
      use_cache == /\ skip = 0 /\ limit = 10 /\ sort = "desc"
                   /\ is_published = "None" /\ user = 0 /\ q = NoQ
      use_search_cache == /\ Truthy(q) /\ skip = 0 /\ limit = 10
                          /\ sort = "desc" /\ user = 0
      search_cache_key == ServiceSearchKey(q)
      cached_search == RedisCache_get(client, redis, search_cache_key, now)
      cached == RedisCache_get(client, redis, POSTS_CACHE_KEY, now)
      Keep(p) == /\ VisibilityFilter(p, is_published, user)
                 /\ Truthy(q) => (ilike(p.title, q) \/ ilike(p.content, q))
      rows == OffsetLimit(OrderBy(SelectSeq(posts.rows, Keep), sort), skip, limit)
      data == [i \in 1..Len(rows) |-> PostWithAuthor(rows[i])]
      reads == (IF use_search_cache THEN {search_cache_key} ELSE {})
               \cup (IF use_cache THEN {POSTS_CACHE_KEY} ELSE {})
      users_read == IF current_user.queried THEN {"users"} ELSE {}
      Answer(result, writes, queried) ==
        Listing(skip, limit, sort, is_published, q, user, result, reads, writes,
                users_read \cup queried)
  IN  /\ client = "connected"
      /\ resp' = Response("list_posts", 200, "", credentials, NoToken, NoToken)
      /\ UNCHANGED <<users, now, client, revocations, posts, issued, comments, tasks>>
      /\ IF use_search_cache /\ cached_search # NoValue
         THEN listing' = Answer(cached_search.items, {}, {}) /\ redis' = redis
         ELSE IF use_cache /\ cached # NoValue
         THEN listing' = Answer(cached.items, {}, {}) /\ redis' = redis
         ELSE IF Truthy(q) /\ TooShort(q)
         THEN listing' = Answer(<<>>, {}, {}) /\ redis' = redis
         ELSE IF use_cache
         THEN /\ listing' = Answer(data, {POSTS_CACHE_KEY}, {"posts"})
              /\ redis' = RedisCache_set(client, redis, POSTS_CACHE_KEY,
                                         [items |-> data], CACHE_TTL, now)
         ELSE IF use_search_cache
         THEN /\ listing' = Answer(data, {search_cache_key}, {"posts"})
              /\ redis' = RedisCache_set(client, redis, search_cache_key,
                                         [items |-> data], CACHE_TTL, now)
         ELSE listing' = Answer(data, {}, {"posts"}) /\ redis' = redis

TwinRequests ==
  { r \in ListRequests :
      /\ r.skip = DefaultSkip /\ r.limit = DefaultLimit /\ r.sort = "desc"
      /\ r.is_published = "None" /\ r.q \in {NoQ, <<"F", "O", "O">>} }

RouteListPosts ==
  \E r \in TwinRequests :
    list_posts(r.skip, r.limit, r.sort, r.is_published, r.q, r.credentials)

ServiceListPosts ==
  \E r \in TwinRequests :
    list_posts_with_filters(r.skip, r.limit, r.sort, r.is_published, r.q,
                            get_current_user_optional(r.credentials, now),
                            r.credentials)

TwinNext ==
  \/ lifespan \/ FeedSignUp \/ TtlCreate \/ UpdatePost
  \/ RouteListPosts \/ ServiceListPosts

TwinSpec == Init /\ [][TwinNext]_vars

\* C37: list_posts_with_filters and list_posts are equivalent: on the same
\* posts table and the same cache, whatever requests came before, the
\* service answers a request as the route would answer it, with the same
\* result, the same cache keys read and written and the same key space
\* afterwards.
C37_ServiceEquivalentToRoute ==
  [][ resp'.op = "list_posts" =>
        \A r \in TwinRequests :
          list_posts_with_filters(r.skip, r.limit, r.sort, r.is_published, r.q,
                                  get_current_user_optional(r.credentials, now),
                                  r.credentials)
          => list_posts(r.skip, r.limit, r.sort, r.is_published, r.q,
                        r.credentials) ]_vars
====
